---------------------------- MODULE Spec2Model ----------------------------
(***************************************************************************)
(* A model of the interpreter pipeline: Lexer (lexer.py), Parser           *)
(* (parser.py), Interpreter (interpreter.py) and the hosts that drive      *)
(* them (main.py, app.py, web_app.py).                                     *)
(*                                                                         *)
(* A source text is a sequence of one-character strings.  Python objects   *)
(* are records; a method that mutates its object is an operator from the   *)
(* object's fields to its new fields, and a method that may raise returns  *)
(* a record with an `err' field (kind "none": it returned normally).       *)
(***************************************************************************)
EXTENDS Integers, Sequences, FiniteSets, TLC

(***************************************************************************)
(* Python values.  k is the type of the value: "int", "float", "str" or    *)
(* "None".  A number is the fraction n/d in lowest terms with d > 0 (d = 1 *)
(* for an int); a str is the sequence s of its characters.  A float is     *)
(* modelled by its exact value: the inputs of the model keep every         *)
(* quotient a dyadic fraction, which IEEE-754 division returns exactly.    *)
(***************************************************************************)
PyNone == [k |-> "None", n |-> 0, d |-> 1, s |-> <<>>]

PyStr(chars) == [k |-> "str", n |-> 0, d |-> 1, s |-> chars]

PyInt(i) == [k |-> "int", n |-> i, d |-> 1, s |-> <<>>]

Abs(i) == IF i < 0 THEN -i ELSE i

\* A local name for the value of an expression: Let(e, LAMBDA v : body).
Let(v, Body(_)) == Body(v)

RECURSIVE Gcd(_, _)
Gcd(a, b) == IF b = 0 THEN a ELSE Gcd(b, a % b)

PyFloat(num, den) ==
    Let(Gcd(Abs(num), Abs(den)), LAMBDA g :
    [k |-> "float", n |-> (IF den < 0 THEN -num ELSE num) \div g,
     d |-> Abs(den) \div g, s |-> <<>>])

(***************************************************************************)
(* The characters str.isspace, str.isdigit and str.isalpha accept, among   *)
(* the ASCII characters.                                                   *)
(***************************************************************************)
None == "None"

SpaceChars == {" ", "\t", "\n", "\r", "\f"}

DigitChars == {"0", "1", "2", "3", "4", "5", "6", "7", "8", "9"}

LetterChars ==
    {"a", "b", "c", "d", "e", "f", "g", "h", "i", "j", "k", "l", "m",
     "n", "o", "p", "q", "r", "s", "t", "u", "v", "w", "x", "y", "z",
     "A", "B", "C", "D", "E", "F", "G", "H", "I", "J", "K", "L", "M",
     "N", "O", "P", "Q", "R", "S", "T", "U", "V", "W", "X", "Y", "Z"}

isspace(c) == c \in SpaceChars

isdigit(c) == c \in DigitChars

isalpha(c) == c \in LetterChars

isalnum(c) == isalpha(c) \/ isdigit(c)

DigitValue(c) ==
    CASE c = "0" -> 0 [] c = "1" -> 1 [] c = "2" -> 2 [] c = "3" -> 3
      [] c = "4" -> 4 [] c = "5" -> 5 [] c = "6" -> 6 [] c = "7" -> 7
      [] c = "8" -> 8 [] c = "9" -> 9

(***************************************************************************)
(* Exceptions.  kind is "none" (no exception), "Lexer" (Lexer.error),      *)
(* "Parser" (Parser.error), "Runtime" (Interpreter.error) or the name of a *)
(* built-in Python exception.  The other fields are the parts of the       *)
(* message.                                                                *)
(***************************************************************************)
NoError ==
    [kind |-> "none", line |-> 0, column |-> 0, msg |-> "", char |-> "",
     expected |-> "", found |-> "", name |-> <<>>]

ValueError == [NoError EXCEPT !.kind = "ValueError"]

TokenTypes ==
    {"NUMBER", "ID", "LET", "PRINT", "PLUS", "MINUS", "MUL", "DIV",
     "ASSIGN", "LPAREN", "RPAREN", "SEMI", "EOF"}

Token(type_, value, line, column) ==
    [type |-> type_, value |-> value, line |-> line, column |-> column]

NoToken == Token("", PyNone, 0, 0)

(***************************************************************************)
(* Lexer.  pos is 0-based as in the code: current_char is text[pos + 1]    *)
(* of the 1-based sequence.                                                *)
(***************************************************************************)
Lexer(text) ==
    [text |-> text, pos |-> 0,
     current_char |-> IF Len(text) > 0 THEN text[1] ELSE None,
     line |-> 1, column |-> 1]

Lexer_error(lx, msg, c) ==
    [NoError EXCEPT !.kind = "Lexer", !.line = lx.line,
                    !.column = lx.column, !.msg = msg, !.char = c]

\* advance with a fault: the lexer blanks the character it has consumed.
advance_blanking(lx) ==
    LET newline == lx.current_char = "\n"
        p == lx.pos + 1
    IN  [lx EXCEPT !.line = IF newline THEN lx.line + 1 ELSE lx.line,
                   !.column = IF newline THEN 1 ELSE lx.column + 1,
                   !.pos = p,
                   !.text = [lx.text EXCEPT ![p] = " "],
                   !.current_char =
                       IF p >= Len(lx.text) THEN None ELSE lx.text[p + 1]]

advance(lx) ==
    LET newline == lx.current_char = "\n"
        p == lx.pos + 1
    IN  [lx EXCEPT !.line = IF newline THEN lx.line + 1 ELSE lx.line,
                   !.column = IF newline THEN 1 ELSE lx.column + 1,
                   !.pos = p,
                   !.current_char =
                       IF p >= Len(lx.text) THEN None ELSE lx.text[p + 1]]

peek(lx) ==
    LET peek_pos == lx.pos + 1
    IN  IF peek_pos >= Len(lx.text) THEN None ELSE lx.text[peek_pos + 1]

RECURSIVE skip_whitespace(_)
skip_whitespace(lx) ==
    IF lx.current_char # None /\ isspace(lx.current_char)
    THEN skip_whitespace(advance(lx))
    ELSE lx

\* skip_to_eol with a fault: the comment runs to the end of the input.
RECURSIVE skip_to_end(_)
skip_to_end(lx) ==
    IF lx.current_char # None THEN skip_to_end(advance(lx)) ELSE lx

RECURSIVE skip_to_eol(_)
skip_to_eol(lx) ==
    IF lx.current_char # None /\ lx.current_char # "\n"
    THEN skip_to_eol(advance(lx))
    ELSE lx

\* skip_comment with a fault: the lexer advances after the comment also
\* when the comment ended at the end of the text.
skip_comment_past(lx) ==
    IF lx.current_char = "/" /\ peek(lx) = "/"
    THEN advance(skip_to_eol(lx))
    ELSE lx

skip_comment(lx) ==
    IF lx.current_char = "/" /\ peek(lx) = "/"
    THEN Let(skip_to_eol(lx), LAMBDA l2 :
         IF l2.current_char = "\n" THEN advance(l2) ELSE l2)
    ELSE lx

\* int(result) of a string of digits.
RECURSIVE int_of(_)
int_of(chars) ==
    IF chars = <<>> THEN 0
    ELSE 10 * int_of(SubSeq(chars, 1, Len(chars) - 1))
         + DigitValue(chars[Len(chars)])

RECURSIVE Pow10(_)
Pow10(e) == IF e = 0 THEN 1 ELSE 10 * Pow10(e - 1)

\* float(result) of a string of digits and points that starts with a digit:
\* a ValueError when it holds more than one point.
float_of(chars) ==
    Let({j \in 1..Len(chars) : chars[j] = "."}, LAMBDA dots :
    IF Cardinality(dots) # 1
    THEN [value |-> PyNone, err |-> ValueError]
    ELSE Let(CHOOSE j \in dots : TRUE, LAMBDA dot :
         Let(SubSeq(chars, dot + 1, Len(chars)), LAMBDA frac :
         [value |-> PyFloat(int_of(SubSeq(chars, 1, dot - 1))
                            * Pow10(Len(frac)) + int_of(frac),
                            Pow10(Len(frac))),
          err |-> NoError])))

\* The loop of Lexer.number: the run of digits and points at the position.
RECURSIVE number_loop(_, _)
number_loop(lx, result) ==
    IF lx.current_char # None
       /\ (isdigit(lx.current_char) \/ lx.current_char = ".")
    THEN number_loop(advance(lx), Append(result, lx.current_char))
    ELSE [lexer |-> lx, result |-> result]

number(lx) ==
    Let(lx.column, LAMBDA start_column :
    Let(number_loop(lx, <<>>), LAMBDA r :
    IF \E j \in 1..Len(r.result) : r.result[j] = "."
    THEN Let(float_of(r.result), LAMBDA f :
         IF f.err.kind # "none"
         THEN [lexer |-> r.lexer, token |-> NoToken, err |-> f.err]
         ELSE [lexer |-> r.lexer,
               token |-> Token("NUMBER", f.value, r.lexer.line, start_column),
               err |-> NoError])
    ELSE [lexer |-> r.lexer,
          token |-> Token("NUMBER", PyInt(int_of(r.result)), r.lexer.line,
                          start_column),
          err |-> NoError]))

RECURSIVE identifier_loop(_, _)
identifier_loop(lx, result) ==
    IF lx.current_char # None
       /\ (isalnum(lx.current_char) \/ lx.current_char = "_")
    THEN identifier_loop(advance(lx), Append(result, lx.current_char))
    ELSE [lexer |-> lx, result |-> result]

keywords(result) ==
    CASE result = <<"l", "e", "t">> -> "LET"
      [] result = <<"p", "r", "i", "n", "t">> -> "PRINT"
      [] OTHER -> "ID"

\* identifier with a fault: the token carries the column where it ends.
identifier_end_column(lx) ==
    Let(identifier_loop(lx, <<>>), LAMBDA r :
    [lexer |-> r.lexer,
     token |-> Token(keywords(r.result), PyStr(r.result), r.lexer.line,
                     r.lexer.column),
     err |-> NoError])

identifier(lx) ==
    Let(lx.column, LAMBDA start_column :
    Let(identifier_loop(lx, <<>>), LAMBDA r :
    [lexer |-> r.lexer,
     token |-> Token(keywords(r.result), PyStr(r.result), r.lexer.line,
                     start_column),
     err |-> NoError]))

OperatorType(c) ==
    CASE c = "+" -> "PLUS" [] c = "-" -> "MINUS" [] c = "*" -> "MUL"
      [] c = "/" -> "DIV" [] c = "=" -> "ASSIGN" [] c = "(" -> "LPAREN"
      [] c = ")" -> "RPAREN" [] c = ";" -> "SEMI"

OperatorChars == {"+", "-", "*", "/", "=", "(", ")", ";"}

\* end_of_file with a fault: the lexer moves on after END_OF_INPUT.
end_of_file_advance(lx) ==
    [lexer |-> [lx EXCEPT !.pos = lx.pos + 1, !.column = lx.column + 1],
     token |-> Token("EOF", PyNone, lx.line, lx.column),
     err |-> NoError]

\* The end of get_next_token, after its loop: current_char is None.
end_of_file(lx) ==
    [lexer |-> lx, token |-> Token("EOF", PyNone, lx.line, lx.column),
     err |-> NoError]

RECURSIVE get_next_token(_)
get_next_token(lx) ==
    LET c == lx.current_char
    IN  IF c = None THEN end_of_file(lx)
        ELSE IF isspace(c) THEN get_next_token(skip_whitespace(lx))
        ELSE IF c = "/" /\ peek(lx) = "/" THEN get_next_token(skip_comment(lx))
        ELSE IF isdigit(c) THEN number(lx)
        ELSE IF isalpha(c) \/ c = "_" THEN identifier(lx)
        ELSE IF c \in OperatorChars
             THEN [lexer |-> advance(lx),
                   token |-> Token(OperatorType(c), PyStr(<<c>>), lx.line,
                                   lx.column),
                   err |-> NoError]
        ELSE [lexer |-> lx, token |-> NoToken,
              err |-> Lexer_error(lx, "Invalid character", c)]

\* The loop of Lexer.tokenize, entered with the tokens so far.
RECURSIVE tokenize_loop(_, _)
tokenize_loop(lx, toks) ==
    Let(get_next_token(lx), LAMBDA r :
    IF r.err.kind # "none"
    THEN [lexer |-> r.lexer, tokens |-> toks, err |-> r.err]
    ELSE IF r.token.type # "EOF"
    THEN tokenize_loop(r.lexer, Append(toks, r.token))
    ELSE [lexer |-> r.lexer, tokens |-> Append(toks, r.token),
          err |-> NoError])

tokenize(lx) == tokenize_loop(lx, <<>>)

(***************************************************************************)
(* AST nodes (ast_nodes.py).                                               *)
(***************************************************************************)
NumberNode(value) == [type |-> "NumberNode", value |-> value]

VarNode(name) == [type |-> "VarNode", name |-> name]

BinOpNode(left, op, right) ==
    [type |-> "BinOpNode", left |-> left, op |-> op, right |-> right]

AssignNode(var, expr) == [type |-> "AssignNode", var |-> var, expr |-> expr]

PrintNode(expr) == [type |-> "PrintNode", expr |-> expr]

ProgramNode(statements) ==
    [type |-> "ProgramNode", statements |-> statements]

NoNode == [type |-> "NoNode"]

(***************************************************************************)
(* Parser.  A parser object p is its lexer and its current_token; a        *)
(* production returns the parser it leaves, the node it built and the      *)
(* exception it raised.                                                    *)
(***************************************************************************)
Parser_error(p, msg, expected, found) ==
    [NoError EXCEPT !.kind = "Parser", !.line = p.current_token.line,
                    !.column = p.current_token.column, !.msg = msg,
                    !.expected = expected, !.found = found]

Raise(p, err) == [p |-> p, node |-> NoNode, err |-> err]

Return(p, node) == [p |-> p, node |-> node, err |-> NoError]

\* Parser with a fault: the whole text is tokenized before parsing starts.
Parser_eager(lx) ==
    Let(tokenize(lx), LAMBDA all :
    IF all.err.kind # "none"
    THEN Raise([lexer |-> all.lexer, current_token |-> NoToken], all.err)
    ELSE Let(get_next_token(lx), LAMBDA r :
         Return([lexer |-> r.lexer, current_token |-> r.token], NoNode)))

\* Parser.__init__: the first token is read at construction.
Parser(lx) ==
    Let(get_next_token(lx), LAMBDA r :
    IF r.err.kind # "none"
    THEN Raise([lexer |-> r.lexer, current_token |-> NoToken], r.err)
    ELSE Return([lexer |-> r.lexer, current_token |-> r.token], NoNode))

\* eat with a fault: the token that does not match is consumed before the
\* error is raised.
eat_consuming(p, token_type) ==
    IF p.current_token.type = token_type
    THEN Let(get_next_token(p.lexer), LAMBDA r :
         IF r.err.kind # "none"
         THEN Raise([p EXCEPT !.lexer = r.lexer], r.err)
         ELSE Return([lexer |-> r.lexer, current_token |-> r.token], NoNode))
    ELSE Let(get_next_token(p.lexer), LAMBDA r :
         Raise([lexer |-> r.lexer,
                current_token |-> IF r.err.kind # "none" THEN p.current_token
                                  ELSE r.token],
               Parser_error(p, "Expected", token_type, p.current_token.type)))

eat(p, token_type) ==
    IF p.current_token.type = token_type
    THEN Let(get_next_token(p.lexer), LAMBDA r :
         IF r.err.kind # "none"
         THEN Raise([p EXCEPT !.lexer = r.lexer], r.err)
         ELSE Return([lexer |-> r.lexer, current_token |-> r.token], NoNode))
    ELSE Raise(p, Parser_error(p, "Expected", token_type,
                               p.current_token.type))

\* A call followed by the rest of the method: an exception the call raised
\* propagates, and the rest runs only when it returned.
Then(r, Rest(_)) == IF r.err.kind # "none" THEN r ELSE Rest(r)

RECURSIVE factor(_), term(_), term_loop(_, _), expr(_), expr_loop(_, _)

factor(p) ==
    LET token == p.current_token
    IN  IF token.type = "NUMBER"
        THEN Then(eat(p, "NUMBER"), LAMBDA e :
             Return(e.p, NumberNode(token.value)))
        ELSE IF token.type = "ID"
        THEN Then(eat(p, "ID"), LAMBDA e :
             Return(e.p, VarNode(token.value)))
        ELSE IF token.type = "LPAREN"
        THEN Then(eat(p, "LPAREN"), LAMBDA e1 :
             Then(expr(e1.p), LAMBDA n :
             Then(eat(n.p, "RPAREN"), LAMBDA e2 :
             Return(e2.p, n.node))))
        ELSE Raise(p, Parser_error(p, "Unexpected token", "", token.type))

\* term_loop with a fault: the loop of term also takes PLUS and MINUS.
term_loop_additive(p, node) ==
    LET token == p.current_token
    IN  IF token.type \in {"MUL", "DIV", "PLUS", "MINUS"}
        THEN Then(eat(p, token.type), LAMBDA e :
             Then(factor(e.p), LAMBDA f :
             term_loop(f.p, BinOpNode(node, token.value, f.node))))
        ELSE Return(p, node)

\* The while loop of Parser.term, entered with the node built so far.
term_loop(p, node) ==
    LET token == p.current_token
    IN  IF token.type \in {"MUL", "DIV"}
        THEN Then(IF token.type = "MUL" THEN eat(p, "MUL")
                  ELSE eat(p, "DIV"), LAMBDA e :
             Then(factor(e.p), LAMBDA f :
             term_loop(f.p, BinOpNode(node, token.value, f.node))))
        ELSE Return(p, node)

term(p) == Then(factor(p), LAMBDA f : term_loop(f.p, f.node))

\* expr_loop with a fault: the right operand is a whole expr, not a term.
expr_loop_right(p, node) ==
    LET token == p.current_token
    IN  IF token.type \in {"PLUS", "MINUS"}
        THEN Then(eat(p, token.type), LAMBDA e :
             Then(expr(e.p), LAMBDA t :
             expr_loop(t.p, BinOpNode(node, token.value, t.node))))
        ELSE Return(p, node)

\* The while loop of Parser.expr, entered with the node built so far.
expr_loop(p, node) ==
    LET token == p.current_token
    IN  IF token.type \in {"PLUS", "MINUS"}
        THEN Then(IF token.type = "PLUS" THEN eat(p, "PLUS")
                  ELSE eat(p, "MINUS"), LAMBDA e :
             Then(term(e.p), LAMBDA t :
             expr_loop(t.p, BinOpNode(node, token.value, t.node))))
        ELSE Return(p, node)

expr(p) == Then(term(p), LAMBDA t : expr_loop(t.p, t.node))

assignment(p) ==
    Then(eat(p, "LET"), LAMBDA e1 :
    Then(eat(e1.p, "ID"), LAMBDA e2 :
    Then(eat(e2.p, "ASSIGN"), LAMBDA e3 :
    Then(expr(e3.p), LAMBDA expr_node :
    Then(eat(expr_node.p, "SEMI"), LAMBDA e4 :
    Return(e4.p, AssignNode(e1.p.current_token.value, expr_node.node)))))))

print_stmt(p) ==
    Then(eat(p, "PRINT"), LAMBDA e1 :
    Then(eat(e1.p, "LPAREN"), LAMBDA e2 :
    Then(expr(e2.p), LAMBDA expr_node :
    Then(eat(expr_node.p, "RPAREN"), LAMBDA e3 :
    Then(eat(e3.p, "SEMI"), LAMBDA e4 :
    Return(e4.p, PrintNode(expr_node.node)))))))

statement(p) ==
    IF p.current_token.type = "LET" THEN assignment(p)
    ELSE IF p.current_token.type = "PRINT" THEN print_stmt(p)
    ELSE Raise(p, Parser_error(p, "Unexpected token", "",
                               p.current_token.type))

RECURSIVE program_loop(_, _)

\* program_loop with a fault: the loop ends at the first token that starts
\* no statement, and what follows is left unparsed.
program_loop_prefix(p, statements) ==
    IF p.current_token.type \in {"LET", "PRINT"}
    THEN Then(statement(p), LAMBDA s :
         program_loop(s.p, Append(statements, s.node)))
    ELSE Return(p, ProgramNode(statements))

\* The while loop of Parser.program, entered with the statements so far.
program_loop(p, statements) ==
    IF p.current_token.type # "EOF"
    THEN Then(statement(p), LAMBDA s :
         program_loop(s.p, Append(statements, s.node)))
    ELSE Return(p, ProgramNode(statements))

program(p) == program_loop(p, <<>>)

parse(p) == program(p)

(***************************************************************************)
(* Python arithmetic on numbers and str() of a number.                     *)
(***************************************************************************)
NumKind(l, r) == IF l.k = "int" /\ r.k = "int" THEN "int" ELSE "float"

PyNumber(kind, num, den) ==
    IF kind = "int" THEN PyInt(num \div den) ELSE PyFloat(num, den)

PyAdd(l, r) == PyNumber(NumKind(l, r), l.n * r.d + r.n * l.d, l.d * r.d)

PySub(l, r) == PyNumber(NumKind(l, r), l.n * r.d - r.n * l.d, l.d * r.d)

PyMul(l, r) == PyNumber(NumKind(l, r), l.n * r.n, l.d * r.d)

\* PyTrueDiv with a fault: the exact quotient of two ints is an int.
PyTrueDiv_exact(l, r) ==
    IF r.n = 0
    THEN [value |-> PyNone,
          err |-> [NoError EXCEPT !.kind = "ZeroDivisionError"]]
    ELSE IF l.k = "int" /\ r.k = "int" /\ l.n % r.n = 0
    THEN [value |-> PyInt(l.n \div r.n), err |-> NoError]
    ELSE [value |-> PyFloat(l.n * r.d, l.d * r.n), err |-> NoError]

\* left_val / right_val: true division, a float; Python itself raises
\* ZeroDivisionError on a zero divisor.
PyTrueDiv(l, r) ==
    IF r.n = 0
    THEN [value |-> PyNone,
          err |-> [NoError EXCEPT !.kind = "ZeroDivisionError"]]
    ELSE [value |-> PyFloat(l.n * r.d, l.d * r.n), err |-> NoError]

\* PyEqZero with a fault: only the integer 0 compares equal to 0.
PyEqZero_int(v) == v.k = "int" /\ v.n = 0

\* right_val == 0: an int 0 and a float 0.0 both equal 0.
PyEqZero(v) == v.n = 0

DigitChar(i) == <<"0", "1", "2", "3", "4", "5", "6", "7", "8", "9">>[i + 1]

RECURSIVE NatDigits(_)
NatDigits(i) ==
    IF i < 10 THEN <<DigitChar(i)>>
    ELSE Append(NatDigits(i \div 10), DigitChar(i % 10))

\* The digits of rem/den after the point, at most `left' of them.
RECURSIVE FracDigits(_, _, _)
FracDigits(rem, den, left) ==
    IF rem = 0 \/ left = 0 THEN <<>>
    ELSE <<DigitChar((rem * 10) \div den)>>
         \o FracDigits((rem * 10) % den, den, left - 1)

\* str(value) of an int or a float (in positional notation).
str(v) ==
    (IF v.n < 0 THEN <<"-">> ELSE <<>>)
    \o NatDigits(Abs(v.n) \div v.d)
    \o (IF v.k = "int" THEN <<>>
        ELSE IF Abs(v.n) % v.d = 0 THEN <<".", "0">>
        ELSE <<".">> \o FracDigits(Abs(v.n) % v.d, v.d, 16))

(***************************************************************************)
(* Interpreter.  An interpreter s is its symbol_table, a function from the *)
(* names (the characters of the str) to their values, and the lines its    *)
(* print calls have written to sys.stdout.  A visit returns the            *)
(* interpreter it leaves, the value it returns and the exception it        *)
(* raised.                                                                 *)
(***************************************************************************)
EmptyTable == [name \in {} |-> PyNone]

Interpreter == [symbol_table |-> EmptyTable, stdout |-> <<>>]

Interpreter_error(msg, name) ==
    [NoError EXCEPT !.kind = "Runtime", !.msg = msg, !.name = name]

VRaise(s, err) == [s |-> s, value |-> PyNone, err |-> err]

VReturn(s, value) == [s |-> s, value |-> value, err |-> NoError]

SetItem(table, key, value) ==
    [name \in DOMAIN table \cup {key} |->
        IF name = key THEN value ELSE table[name]]

visit_NumberNode(s, node) == VReturn(s, node.value)

\* visit_VarNode with a fault: a name that is not in the table reads as 0.
visit_VarNode_default(s, node) ==
    IF node.name.s \notin DOMAIN s.symbol_table THEN VReturn(s, PyInt(0))
    ELSE VReturn(s, s.symbol_table[node.name.s])

visit_VarNode(s, node) ==
    LET var_name == node.name.s
    IN  IF var_name \notin DOMAIN s.symbol_table
        THEN VRaise(s, Interpreter_error("Variable is not defined", var_name))
        ELSE VReturn(s, s.symbol_table[var_name])

RECURSIVE visit(_, _)

\* visit_BinOpNode with a fault: the right operand is visited first.
visit_BinOpNode_right_first(s, node) ==
    Then(visit(s, node.right), LAMBDA r :
    Then(visit(r.s, node.left), LAMBDA l :
    IF node.op = PyStr(<<"+">>) THEN VReturn(l.s, PyAdd(l.value, r.value))
    ELSE IF node.op = PyStr(<<"-">>)
    THEN VReturn(l.s, PySub(l.value, r.value))
    ELSE IF node.op = PyStr(<<"*">>)
    THEN VReturn(l.s, PyMul(l.value, r.value))
    ELSE IF node.op = PyStr(<<"/">>)
    THEN IF PyEqZero(r.value)
         THEN VRaise(l.s, Interpreter_error("Division by zero", <<>>))
         ELSE Let(PyTrueDiv(l.value, r.value), LAMBDA q :
              IF q.err.kind # "none" THEN VRaise(l.s, q.err)
              ELSE VReturn(l.s, q.value))
    ELSE VRaise(l.s, Interpreter_error("Unknown operator", node.op.s))))

visit_BinOpNode(s, node) ==
    Then(visit(s, node.left), LAMBDA l :
    Then(visit(l.s, node.right), LAMBDA r :
    IF node.op = PyStr(<<"+">>) THEN VReturn(r.s, PyAdd(l.value, r.value))
    ELSE IF node.op = PyStr(<<"-">>)
    THEN VReturn(r.s, PySub(l.value, r.value))
    ELSE IF node.op = PyStr(<<"*">>)
    THEN VReturn(r.s, PyMul(l.value, r.value))
    ELSE IF node.op = PyStr(<<"/">>)
    THEN IF PyEqZero(r.value)
         THEN VRaise(r.s, Interpreter_error("Division by zero", <<>>))
         ELSE Let(PyTrueDiv(l.value, r.value), LAMBDA q :
              IF q.err.kind # "none" THEN VRaise(r.s, q.err)
              ELSE VReturn(r.s, q.value))
    ELSE VRaise(r.s, Interpreter_error("Unknown operator", node.op.s))))

\* visit_AssignNode with a fault: the name is entered in the table before
\* the expression is evaluated, and stays there when the evaluation fails.
visit_AssignNode_early(s, node) ==
    Let(visit(s, node.expr), LAMBDA v :
    IF v.err.kind # "none"
    THEN VRaise([v.s EXCEPT !.symbol_table =
                    SetItem(v.s.symbol_table, node.var.s, PyNone)], v.err)
    ELSE VReturn([v.s EXCEPT !.symbol_table =
                    SetItem(v.s.symbol_table, node.var.s, v.value)], PyNone))

\* visit_AssignNode with a fault: when the expression fails, the name is
\* taken out of the table.
visit_AssignNode_forget(s, node) ==
    Let(visit(s, node.expr), LAMBDA v :
    IF v.err.kind # "none"
    THEN VRaise([v.s EXCEPT !.symbol_table =
                    [name \in DOMAIN v.s.symbol_table \ {node.var.s} |->
                        v.s.symbol_table[name]]], v.err)
    ELSE VReturn([v.s EXCEPT !.symbol_table =
                    SetItem(v.s.symbol_table, node.var.s, v.value)], PyNone))

visit_AssignNode(s, node) ==
    Then(visit(s, node.expr), LAMBDA v :
    VReturn([v.s EXCEPT !.symbol_table =
                SetItem(v.s.symbol_table, node.var.s, v.value)], PyNone))

visit_PrintNode(s, node) ==
    Then(visit(s, node.expr), LAMBDA v :
    VReturn([v.s EXCEPT !.stdout = Append(v.s.stdout, str(v.value))],
            PyNone))

RECURSIVE ProgramNode_loop(_, _, _)

\* ProgramNode_loop with a fault: the statements are visited last to first.
ProgramNode_loop_reversed(s, statements, k) ==
    IF k > Len(statements) THEN VReturn(s, PyNone)
    ELSE Then(visit(s, statements[Len(statements) + 1 - k]), LAMBDA r :
         ProgramNode_loop(r.s, statements, k + 1))

\* ProgramNode_loop with a fault: after a statement raised, the statements
\* after it are still visited before the exception leaves the loop.
ProgramNode_loop_continue(s, statements, k) ==
    IF k > Len(statements) THEN VReturn(s, PyNone)
    ELSE Let(visit(s, statements[k]), LAMBDA r :
         IF r.err.kind = "none" THEN ProgramNode_loop(r.s, statements, k + 1)
         ELSE VRaise(ProgramNode_loop(r.s, statements, k + 1).s, r.err))

\* app.py's WebInterpreter, a subclass of Interpreter with an output_lines
\* and a timeline of its own; its visit_PrintNode and visit_AssignNode
\* override those of Interpreter.
WebInterpreter ==
    [symbol_table |-> EmptyTable, stdout |-> <<>>, output_lines |-> <<>>,
     timeline |-> <<>>]

IsWebInterpreter(s) == "output_lines" \in DOMAIN s

WebInterpreter_visit_PrintNode(s, node) ==
    Then(visit(s, node.expr), LAMBDA v :
    VReturn([v.s EXCEPT
                !.output_lines = Append(v.s.output_lines, str(v.value)),
                !.timeline = Append(v.s.timeline,
                    [type |-> "print", value |-> str(v.value),
                     symbol_table |-> v.s.symbol_table])],
            v.value))

WebInterpreter_visit_AssignNode(s, node) ==
    Then(visit_AssignNode(s, node), LAMBDA r :
    VReturn([r.s EXCEPT
                !.timeline = Append(r.s.timeline,
                    [type |-> "assignment", variable |-> node.var.s,
                     value |-> r.s.symbol_table[node.var.s],
                     symbol_table |-> r.s.symbol_table])],
            r.value))

\* The for loop of visit_ProgramNode, at statement k.
ProgramNode_loop(s, statements, k) ==
    IF k > Len(statements) THEN VReturn(s, PyNone)
    ELSE Then(visit(s, statements[k]), LAMBDA r :
         ProgramNode_loop(r.s, statements, k + 1))

\* visit_ProgramNode with a fault: the program starts from an empty store.
visit_ProgramNode_reset(s, node) ==
    ProgramNode_loop([s EXCEPT !.symbol_table = EmptyTable],
                     node.statements, 1)

visit_ProgramNode(s, node) == ProgramNode_loop(s, node.statements, 1)

generic_visit(s, node) ==
    VRaise(s, Interpreter_error("No visit method", <<>>))

visit(s, node) ==
    CASE node.type = "NumberNode" -> visit_NumberNode(s, node)
      [] node.type = "VarNode" -> visit_VarNode(s, node)
      [] node.type = "BinOpNode" -> visit_BinOpNode(s, node)
      [] node.type = "AssignNode" ->
           IF IsWebInterpreter(s) THEN WebInterpreter_visit_AssignNode(s, node)
           ELSE visit_AssignNode(s, node)
      [] node.type = "PrintNode" ->
           IF IsWebInterpreter(s) THEN WebInterpreter_visit_PrintNode(s, node)
           ELSE visit_PrintNode(s, node)
      [] node.type = "ProgramNode" -> visit_ProgramNode(s, node)
      [] OTHER -> generic_visit(s, node)

interpret(s, ast) == visit(s, ast)

\* A dict object in the hands of a host.  It is either the interpreter's own
\* symbol_table (alias: what it holds is read in the interpreter, and a
\* change of it changes the interpreter) or a dict of its own.
dict(table) == [alias |-> FALSE, table |-> table]

\* get_symbol_table with a fault: self.symbol_table itself is returned.
get_symbol_table_alias(s) == [alias |-> TRUE, table |-> EmptyTable]

\* return self.symbol_table.copy()
get_symbol_table(s) == dict(s.symbol_table)

\* The mapping a dict object holds while the interpreter is s.
items(d, s) == IF d.alias THEN s.symbol_table ELSE d.table

\* d.copy()
copy(d, s) == dict(items(d, s))

\* d[key] = value by the holder of d: the dict and the interpreter after it.
setitem(d, s, key, value) ==
    IF d.alias
    THEN [d |-> d,
          s |-> [s EXCEPT !.symbol_table =
                    SetItem(s.symbol_table, key, value)]]
    ELSE [d |-> dict(SetItem(d.table, key, value)), s |-> s]

\* web_app.get_variable_changes: the names that are new or hold another
\* value (the texts that describe them are left out).
get_variable_changes(before, after) ==
    {name \in DOMAIN after :
        name \notin DOMAIN before \/ before[name] # after[name]}

(***************************************************************************)
(* The source texts of the model.  A text is written as a sequence of      *)
(* words; Join separates them by one space, Flat by nothing.               *)
(***************************************************************************)
Chars(w) ==
    CASE w = "let" -> <<"l", "e", "t">>
      [] w = "print" -> <<"p", "r", "i", "n", "t">>
      [] w = "comment" -> <<"c", "o", "m", "m", "e", "n", "t">>
      [] w = "//" -> <<"/", "/">>
      [] w = "10" -> <<"1", "0">>
      [] w = "1.5" -> <<"1", ".", "5">>
      [] w = "vars" -> <<"v", "a", "r", "s">>
      [] w = "exit" -> <<"e", "x", "i", "t">>
      [] w = "quit" -> <<"q", "u", "i", "t">>
      [] OTHER -> <<w>>

RECURSIVE Flat(_)
Flat(ws) == IF ws = <<>> THEN <<>> ELSE Chars(Head(ws)) \o Flat(Tail(ws))

RECURSIVE Join(_)
Join(ws) ==
    IF ws = <<>> THEN <<>>
    ELSE IF Len(ws) = 1 THEN Chars(ws[1])
    ELSE Chars(Head(ws)) \o <<" ">> \o Join(Tail(ws))

\* The programs of the specification's section 8 and of test_interpreter.py.
ExamplePrecedence == Join(<<"let", "x", "=", "2", "+", "3", "*", "4", ";">>)

ExampleParentheses ==
    Join(<<"let", "x", "=", "(", "2", "+", "3", ")", "*", "4", ";">>)

ExampleAssociativity ==
    Join(<<"let", "x", "=", "10", "-", "5", "-", "2", ";">>)

ExampleSequential ==
    Join(<<"let", "x", "=", "10", ";", "let", "y", "=", "x", "+", "5", ";",
           "print", "(", "y", ")", ";">>)

ExampleDivZero == Join(<<"let", "x", "=", "10", "/", "0", ";">>)

ExampleUndefined == Join(<<"let", "x", "=", "y", "+", "5", ";">>)

ExampleDivision == Join(<<"let", "x", "=", "10", "/", "5", ";">>)

ExampleComment ==
    Flat(<<"let", " ", "x", " ", "=", " ", "5", ";", " ", "//", " ",
           "comment", "\n", "print", "(", "x", ")", ";">>)

\* A comment up to the end of a line and one up to the end of the input.
ExampleComments ==
    Flat(<<"let", " ", "x", " ", "=", " ", "5", ";", " ", "//", " ",
           "comment", "\n", "print", "(", "x", ")", ";", "//", "x", ";">>)

\* Tabs, lines and a comment before tokens.
ExampleTabs ==
    Flat(<<"\t", "let", "\t", "x", "=", "\n", "\n", "\t", "\t", "10", " ",
           "//", "\t", "comment", "\n", " ", ";", "print", "\t">>)

\* An Assign that fails on a name that has a value, and one on a name that
\* has none.
ExampleReassign ==
    Join(<<"let", "x", "=", "2", ";", "let", "x", "=", "x", "/", "0", ";",
           "print", "(", "x", ")", ";">>)

ExampleSelf == Join(<<"let", "x", "=", "x", "+", "1", ";">>)

\* test_interpret_complex_expression.
ExampleComplex ==
    Join(<<"let", "x", "=", "(", "10", "+", "5", ")", "*", "2", "/", "3",
           ";">>)

\* Float literals as operands.
ExampleFloat ==
    Join(<<"let", "x", "=", "1.5", "+", "2", ";", "let", "y", "=", "2", "*",
           "1.5", "-", "x", ";", "print", "(", "y", ")", ";">>)

\* A failing statement between two statements that print.
ExampleFailure ==
    Join(<<"print", "(", "2", ")", ";", "let", "x", "=", "2", "/", "0", ";",
           "print", "(", "4", ")", ";">>)

ExampleTexts ==
    {ExamplePrecedence, ExampleParentheses, ExampleAssociativity,
     ExampleSequential, ExampleDivZero, ExampleUndefined, ExampleDivision,
     ExampleComment, ExampleFailure, ExampleComplex, ExampleFloat,
     ExampleComments, ExampleTabs, ExampleReassign, ExampleSelf}

\* Expressions of at most MaxOps binary operators over Atoms, each operand
\* that is itself an operation written with and without parentheses.
MaxOps == 2

Atoms == {"2", "x"}

Ops == {"+", "-", "*", "/"}

RECURSIVE Exprs(_)
Operand(n) ==
    Exprs(n) \cup (IF n = 0 THEN {}
                   ELSE {<<"(">> \o e \o <<")">> : e \in Exprs(n)})

Exprs(n) ==
    IF n = 0 THEN {<<a>> : a \in Atoms}
    ELSE UNION {{l \o <<op>> \o r :
                    l \in Operand(i), op \in Ops, r \in Operand(n - 1 - i)} :
                i \in 0..(n - 1)}

AllExprs == UNION {Exprs(n) : n \in 0..MaxOps}

\* x holds 0; the expression's value is stored and printed.
ExprTexts ==
    {Join(<<"let", "x", "=", "0", ";", "let", "r", "=">> \o e
          \o <<";", "print", "(", "r", ")", ";">>) : e \in AllExprs}

\* Every text one word away from BaseWords: a word deleted, replaced or
\* inserted, and every prefix of it.
BaseWords ==
    <<"let", "x", "=", "2", ";", "let", "y", "=", "(", "2", "-", "x", ")",
      "/", "z", ";", "print", "(", "y", ")", ";">>

EditWords ==
    {"let", "print", "x", "2", "+", "-", "*", "/", "=", "(", ")", ";", "$"}

Without(ws, i) == SubSeq(ws, 1, i - 1) \o SubSeq(ws, i + 1, Len(ws))

EditTexts ==
    {Join(Without(BaseWords, i)) : i \in 1..Len(BaseWords)}
    \cup {Join([BaseWords EXCEPT ![i] = w]) :
            i \in 1..Len(BaseWords), w \in EditWords}
    \cup {Join(SubSeq(BaseWords, 1, i - 1) \o <<w>>
               \o SubSeq(BaseWords, i, Len(BaseWords))) :
            i \in 1..(Len(BaseWords) + 1), w \in EditWords}
    \cup {Join(SubSeq(BaseWords, 1, i)) : i \in 0..Len(BaseWords)}

\* BaseWords with a comment after each of its words: up to the end of the
\* line, or up to the end of the input.
Comments ==
    {<<"//">>, <<"//", "print", "(", "2", ")", ";">>, <<"/", "//", "x">>,
     <<"//", "/", "let">>}

CommentTexts ==
    {Join(SubSeq(BaseWords, 1, j) \o c) \o <<"\n">>
        \o Join(SubSeq(BaseWords, j + 1, Len(BaseWords))) :
            j \in 0..Len(BaseWords), c \in Comments}
    \cup {Join(SubSeq(BaseWords, 1, j) \o c) :
            j \in 0..Len(BaseWords), c \in Comments}

\* One operation on operands that fail or not: an undefined name, a
\* division by zero, a number, a difference with an undefined name.
Operands ==
    {<<"y">>, <<"2", "/", "0">>, <<"2">>, <<"(", "z", "-", "2", ")">>,
     <<"0">>}

OrderTexts ==
    {Join(<<"let", "x", "=">> \o l \o <<op>> \o r \o <<";">>) :
        l \in Operands, op \in Ops, r \in Operands}

\* Every text of at most MaxChars characters of Alphabet.
MaxChars == 4

Alphabet == {"1", ".", "a", "/", " ", "\n", "$"}

RECURSIVE TextsOfLen(_)
TextsOfLen(n) ==
    IF n = 0 THEN {<<>>}
    ELSE {Append(t, c) : t \in TextsOfLen(n - 1), c \in Alphabet}

CharTexts == UNION {TextsOfLen(n) : n \in 0..MaxChars}

Texts ==
    ExampleTexts \cup ExprTexts \cup EditTexts \cup CommentTexts
        \cup OrderTexts \cup CharTexts

(***************************************************************************)
(* The hosts.  One text is given to a new Lexer; then either the host      *)
(* tokenizes it (Lexer.tokenize, the tokenize handlers of app.py and       *)
(* web_app.py) or it builds a Parser, parses, and runs the program on a    *)
(* new Interpreter: at once (run_code of main.py, execute of app.py) or    *)
(* statement by statement (the timeline loop of web_app.py).               *)
(***************************************************************************)
\* No web server.
NoWeb == [host |-> "none"]

VARIABLES
    pc,             \* where the host is
    lexer,          \* the Lexer object
    tokens,         \* the tokens get_next_token has returned to the host
    current_token,  \* Parser.current_token
    ast,            \* the ProgramNode parse returned
    interpreter,    \* the Interpreter object and sys.stdout
    i,              \* the statements the timeline loop has visited
    error,          \* the exception that reached the host
    timeline,       \* the timeline entries of the host
    web             \* the web server: its requests and the process's sys.stdout

vars ==
    <<pc, lexer, tokens, current_token, ast, interpreter, i, error, timeline,
      web>>

\* The calls of get_next_token the host makes after END_OF_INPUT came back.
MaxTail == 2

Init ==
    /\ pc = "new"
    /\ \E text \in Texts : lexer = Lexer(text)
    /\ tokens = <<>>
    /\ current_token = NoToken
    /\ ast = NoNode
    /\ interpreter = Interpreter
    /\ i = 0
    /\ error = NoError
    /\ timeline = <<>>
    /\ web = NoWeb

EofCount(toks) == Cardinality({j \in 1..Len(toks) : toks[j].type = "EOF"})

\* One call of get_next_token by a host that collects the tokens.
NextToken ==
    /\ pc \in {"new", "tokenizing"}
    /\ EofCount(tokens) <= MaxTail
    /\ Let(get_next_token(lexer), LAMBDA r :
           /\ lexer' = r.lexer
           /\ IF r.err.kind # "none"
              THEN /\ error' = r.err
                   /\ pc' = "tokenize_failed"
                   /\ UNCHANGED tokens
              ELSE /\ tokens' = Append(tokens, r.token)
                   /\ pc' = "tokenizing"
                   /\ UNCHANGED error)
    /\ UNCHANGED <<web, current_token, ast, interpreter, i, timeline>>

\* parser = Parser(lexer)
NewParser ==
    /\ pc = "new"
    /\ Let(Parser(lexer), LAMBDA r :
           /\ lexer' = r.p.lexer
           /\ current_token' = r.p.current_token
           /\ error' = r.err
           /\ pc' = IF r.err.kind # "none" THEN "parser_failed"
                    ELSE "parser")
    /\ UNCHANGED <<web, tokens, ast, interpreter, i, timeline>>

\* ast = parser.parse()
Parse ==
    /\ pc = "parser"
    /\ Let(parse([lexer |-> lexer, current_token |-> current_token]),
           LAMBDA r :
           /\ lexer' = r.p.lexer
           /\ current_token' = r.p.current_token
           /\ ast' = r.node
           /\ error' = r.err
           /\ pc' = IF r.err.kind # "none" THEN "parse_failed"
                    ELSE "parsed")
    /\ UNCHANGED <<web, tokens, interpreter, i, timeline>>

\* interpreter.interpret(ast)
Interpret ==
    /\ pc = "parsed"
    /\ Let(interpret(interpreter, ast), LAMBDA r :
           /\ interpreter' = r.s
           /\ error' = r.err
           /\ pc' = IF r.err.kind # "none" THEN "run_failed" ELSE "done")
    /\ UNCHANGED <<web, lexer, tokens, current_token, ast, i, timeline>>

\* app.py's execute: interpreter = WebInterpreter(); interpreter.interpret(ast)
InterpretWeb ==
    /\ pc = "parsed"
    /\ Let(interpret(WebInterpreter, ast), LAMBDA r :
           /\ interpreter' = r.s
           /\ error' = r.err
           /\ pc' = IF r.err.kind # "none" THEN "web_failed" ELSE "web_done")
    /\ UNCHANGED <<web, lexer, tokens, current_token, ast, i, timeline>>

\* The entry the timeline loop appends after a statement: step_vars_after
\* and the changes since step_vars_before, both copies of snapshots.
timeline_entry(before, s, after, t) ==
    [variables |-> items(after, t),
     changes |-> get_variable_changes(items(before, s), items(after, t))]

\* One iteration of the timeline loop: interpreter.visit(stmt) between two
\* snapshots of the store.
VisitStatement ==
    /\ pc \in {"parsed", "stepping"}
    /\ i < Len(ast.statements)
    /\ Let(visit(interpreter, ast.statements[i + 1]), LAMBDA r :
           /\ interpreter' = r.s
           /\ error' = r.err
           /\ i' = i + 1
           /\ timeline' =
                 IF r.err.kind # "none" THEN timeline
                 ELSE Append(timeline,
                        timeline_entry(
                          copy(get_symbol_table(interpreter), interpreter),
                          interpreter,
                          copy(get_symbol_table(r.s), r.s), r.s))
           /\ pc' = IF r.err.kind # "none" THEN "run_failed"
                    ELSE IF i + 1 = Len(ast.statements) THEN "done"
                    ELSE "stepping")
    /\ UNCHANGED <<web, lexer, tokens, current_token, ast>>

Next ==
    \/ NextToken
    \/ NewParser
    \/ Parse
    \/ Interpret
    \/ InterpretWeb
    \/ VisitStatement

Spec == Init /\ [][Next]_vars

(***************************************************************************)
(* main.py's repl: one Interpreter for all the lines the user enters.  pc  *)
(* tells what the loop did with the last line.                             *)
(***************************************************************************)
RECURSIVE lstrip(_)
lstrip(chars) ==
    IF chars # <<>> /\ isspace(Head(chars)) THEN lstrip(Tail(chars))
    ELSE chars

RECURSIVE rstrip(_)
rstrip(chars) ==
    IF chars # <<>> /\ isspace(chars[Len(chars)])
    THEN rstrip(SubSeq(chars, 1, Len(chars) - 1))
    ELSE chars

strip(chars) == rstrip(lstrip(chars))

\* The lines the user enters.
MaxLines == 4

ReplLines ==
    {Join(<<"let", "x", "=", "2", ";">>),
     Join(<<"let", "y", "=", "x", ";", "let", "x", "=", "y", "/", "0", ";",
            "let", "y", "=", "4", ";">>),
     Join(<<"let", "x", "=", "x", "+", "2", ";">>),
     Join(<<"print", "(", "x", ")", ";">>),
     Join(<<"let", "x", "=", "$", ";">>),
     Join(<<"let", "x", "2", ";">>),
     Chars("vars") \o <<" ">>,
     <<" ">> \o Chars("exit"),
     Chars("quit"),
     <<" ">>,
     <<>>}

ReplInit ==
    /\ pc = "repl"
    /\ lexer = Lexer(<<>>)
    /\ tokens = <<>>
    /\ current_token = NoToken
    /\ ast = NoNode
    /\ interpreter = Interpreter
    /\ i = 0
    /\ error = NoError
    /\ timeline = <<>>
    /\ web = NoWeb

InRepl == pc \in {"repl", "repl_skip", "repl_vars", "repl_eval"} /\ i < MaxLines

\* 'exit' or 'quit': the loop ends.
ReplExit ==
    /\ InRepl
    /\ \E line \in ReplLines : strip(line) \in {Chars("exit"), Chars("quit")}
    /\ pc' = "repl_exit"
    /\ i' = i + 1
    /\ UNCHANGED <<web, lexer, tokens, current_token, ast, interpreter, error,
                   timeline>>

\* An empty line is skipped.
ReplSkip ==
    /\ InRepl
    /\ \E line \in ReplLines : strip(line) = <<>>
    /\ pc' = "repl_skip"
    /\ i' = i + 1
    /\ UNCHANGED <<web, lexer, tokens, current_token, ast, interpreter, error,
                   timeline>>

\* 'vars': the items of a snapshot of the store are printed.  The lines of
\* the listing are kept as the mapping they show.
ReplVars ==
    /\ InRepl
    /\ \E line \in ReplLines : strip(line) = Chars("vars")
    /\ pc' = "repl_vars"
    /\ i' = i + 1
    /\ interpreter' =
          [interpreter EXCEPT !.stdout =
              Append(interpreter.stdout,
                     [symbol_table |->
                         items(get_symbol_table(interpreter), interpreter)])]
    /\ UNCHANGED <<web, lexer, tokens, current_token, ast, error, timeline>>

\* The body of the loop for any other line, up to the except clause: what
\* the lexer, the parser, the tree and the interpreter are after it.
repl_eval(s, line) ==
    Let(Parser(Lexer(line)), LAMBDA n :
    IF n.err.kind # "none"
    THEN [p |-> n.p, node |-> NoNode, s |-> s, err |-> n.err]
    ELSE Let(parse(n.p), LAMBDA a :
    IF a.err.kind # "none"
    THEN [p |-> a.p, node |-> NoNode, s |-> s, err |-> a.err]
    ELSE Let(interpret(s, a.node), LAMBDA r :
    [p |-> a.p, node |-> a.node, s |-> r.s, err |-> r.err])))

IsCommand(line) ==
    strip(line) \in {<<>>, Chars("vars"), Chars("exit"), Chars("quit")}

\* Any other line is lexed, parsed and interpreted; an exception is printed
\* and the loop goes on.
ReplEval ==
    /\ InRepl
    /\ \E line \in ReplLines :
          /\ ~IsCommand(line)
          /\ Let(repl_eval(interpreter, line), LAMBDA r :
                 /\ lexer' = r.p.lexer
                 /\ current_token' = r.p.current_token
                 /\ ast' = r.node
                 /\ interpreter' = r.s
                 /\ error' = r.err)
    /\ pc' = "repl_eval"
    /\ i' = i + 1
    /\ UNCHANGED <<web, tokens, timeline>>

ReplNext == ReplExit \/ ReplSkip \/ ReplVars \/ ReplEval

ReplSpec == ReplInit /\ [][ReplNext]_vars

\* All the hosts: a request that runs or steps one program, and the repl.
HostsInit == Init \/ ReplInit

HostsNext == Next \/ ReplNext

Hosts == HostsInit /\ [][HostsNext]_vars

(***************************************************************************)
(* What the properties below refer to: the tokens of the text, the tokens  *)
(* of each statement and of its expression, and the variable store.        *)
(***************************************************************************)
text == lexer.text

symbol_table == interpreter.symbol_table

stdout == interpreter.stdout

TextTokens == tokenize(Lexer(text)).tokens

\* The place of the j-th SEMI among toks.
SemiIndex(toks, j) ==
    CHOOSE k \in 1..Len(toks) :
        /\ toks[k].type = "SEMI"
        /\ Cardinality({m \in 1..k : toks[m].type = "SEMI"}) = j

\* The tokens of the j-th statement of a program: up to its SEMI.
StatementTokens(toks, j) ==
    SubSeq(toks, IF j = 1 THEN 1 ELSE SemiIndex(toks, j - 1) + 1,
           SemiIndex(toks, j))

\* The tokens of the expression of a statement: between LET ID ASSIGN and
\* SEMI, or between PRINT LPAREN and RPAREN SEMI.
ExprTokens(st) ==
    IF st[1].type = "LET" THEN SubSeq(st, 4, Len(st) - 1)
    ELSE SubSeq(st, 3, Len(st) - 2)

\* The parentheses open at place k of ts.
Depth(ts, k) ==
    Cardinality({m \in 1..(k - 1) : ts[m].type = "LPAREN"})
    - Cardinality({m \in 1..(k - 1) : ts[m].type = "RPAREN"})

\* The places of ts that hold an operator of `types' outside parentheses.
TopLevel(ts, types) ==
    {k \in 1..Len(ts) : ts[k].type \in types /\ Depth(ts, k) = 0}

IsAtomOf(node, tok) ==
    \/ tok.type = "NUMBER" /\ node = NumberNode(tok.value)
    \/ tok.type = "ID" /\ node = VarNode(tok.value)

\* node is a tree of the expression ts in which * and / bind tighter than
\* + and - and a parenthesised sub-expression is one operand: its root is an
\* operator outside parentheses, a + or - whenever there is one, and its
\* operands are such trees of the tokens to the left and to the right.
RECURSIVE RespectsPrecedence(_, _)
SplitAt(node, ts, places) ==
    /\ node.type = "BinOpNode"
    /\ \E k \in places :
          /\ node.op = ts[k].value
          /\ RespectsPrecedence(node.left, SubSeq(ts, 1, k - 1))
          /\ RespectsPrecedence(node.right, SubSeq(ts, k + 1, Len(ts)))

RespectsPrecedence(node, ts) ==
    IF ts = <<>> THEN FALSE
    ELSE IF TopLevel(ts, {"PLUS", "MINUS"}) # {}
    THEN SplitAt(node, ts, TopLevel(ts, {"PLUS", "MINUS"}))
    ELSE IF TopLevel(ts, {"MUL", "DIV"}) # {}
    THEN SplitAt(node, ts, TopLevel(ts, {"MUL", "DIV"}))
    ELSE IF ts[1].type = "LPAREN"
    THEN RespectsPrecedence(node, SubSeq(ts, 2, Len(ts) - 1))
    ELSE Len(ts) = 1 /\ IsAtomOf(node, ts[1])

Num(n) == NumberNode(PyInt(n))

Op(c) == PyStr(<<c>>)

Ran == pc \in {"done", "run_failed"}

\* C1: the parser builds, for the expression of every statement, a tree in
\* which * and / bind tighter than + and - and a parenthesised sub-expression
\* is a single operand; 2 + 3 * 4 parses to BinOp(2, +, BinOp(3, *, 4)) and
\* evaluates to 14, (2 + 3) * 4 parses to BinOp(BinOp(2, +, 3), *, 4) and
\* evaluates to 20.
C1_Precedence ==
    /\ pc = "parsed" =>
          \A j \in 1..Len(ast.statements) :
              RespectsPrecedence(ast.statements[j].expr,
                  ExprTokens(StatementTokens(TextTokens, j)))
    /\ (pc = "parsed" /\ text = ExamplePrecedence) =>
          ast.statements[1].expr
              = BinOpNode(Num(2), Op("+"), BinOpNode(Num(3), Op("*"), Num(4)))
    /\ (pc = "parsed" /\ text = ExampleParentheses) =>
          ast.statements[1].expr
              = BinOpNode(BinOpNode(Num(2), Op("+"), Num(3)), Op("*"), Num(4))
    /\ (Ran /\ text = ExamplePrecedence) =>
          pc = "done" /\ symbol_table[<<"x">>] = PyInt(14)
    /\ (Ran /\ text = ExampleParentheses) =>
          pc = "done" /\ symbol_table[<<"x">>] = PyInt(20)

\* 2 + 3 * 4 has run and x is 14.
C1_Witness ==
    pc = "done" /\ text = ExamplePrecedence
    /\ symbol_table[<<"x">>] = PyInt(14)

Min(S) == CHOOSE k \in S : \A m \in S : k <= m

Max(S) == CHOOSE k \in S : \A m \in S : m <= k

\* The two operator places of a chain  a op1 b op2 c  whose operators are
\* both + or - or both * or /, and {} when ts is no such chain.
ChainPlaces(ts) ==
    IF Cardinality(TopLevel(ts, {"PLUS", "MINUS"})) = 2
          /\ TopLevel(ts, {"MUL", "DIV"}) = {}
    THEN TopLevel(ts, {"PLUS", "MINUS"})
    ELSE IF Cardinality(TopLevel(ts, {"MUL", "DIV"})) = 2
          /\ TopLevel(ts, {"PLUS", "MINUS"}) = {}
    THEN TopLevel(ts, {"MUL", "DIV"})
    ELSE {}

\* node is BinOp(BinOp(a, op1, b), op2, c) for the chain ts.
IsLeftAssociative(node, ts, k1, k2) ==
    /\ node.type = "BinOpNode"
    /\ node.op = ts[k2].value
    /\ node.left.type = "BinOpNode"
    /\ node.left.op = ts[k1].value
    /\ RespectsPrecedence(node.left.left, SubSeq(ts, 1, k1 - 1))
    /\ RespectsPrecedence(node.left.right, SubSeq(ts, k1 + 1, k2 - 1))
    /\ RespectsPrecedence(node.right, SubSeq(ts, k2 + 1, Len(ts)))

IsChain(j) == ChainPlaces(ExprTokens(StatementTokens(TextTokens, j))) # {}

\* C2: operators of the same precedence level are left-associative: for a
\* chain a op1 b op2 c with both operators in {+,-} or both in {*,/} the
\* parser builds BinOp(BinOp(a, op1, b), op2, c), and 10 - 5 - 2 evaluates
\* to 3.
C2_LeftAssociative ==
    /\ pc = "parsed" =>
          \A j \in 1..Len(ast.statements) :
              IsChain(j) =>
                  IsLeftAssociative(ast.statements[j].expr,
                      ExprTokens(StatementTokens(TextTokens, j)),
                      Min(ChainPlaces(ExprTokens(StatementTokens(TextTokens, j)))),
                      Max(ChainPlaces(ExprTokens(StatementTokens(TextTokens, j)))))
    /\ (pc = "parsed" /\ text = ExampleAssociativity) =>
          ast.statements[1].expr
              = BinOpNode(BinOpNode(Num(10), Op("-"), Num(5)), Op("-"), Num(2))
    /\ (Ran /\ text = ExampleAssociativity) =>
          pc = "done" /\ symbol_table[<<"x">>] = PyInt(3)

\* 10 - 5 - 2 has run and x is 3; its expression is a chain.
C2_Witness ==
    pc = "done" /\ text = ExampleAssociativity
    /\ IsChain(1) /\ symbol_table[<<"x">>] = PyInt(3)

(***************************************************************************)
(* Sequential execution, stated without the interpreter's loop: the effect *)
(* of one statement on a store and an output, and the store and output     *)
(* after the first k statements.                                           *)
(***************************************************************************)
Effect(s, stmt) ==
    IF stmt.type = "AssignNode"
    THEN [s EXCEPT !.symbol_table =
             SetItem(s.symbol_table, stmt.var.s, visit(s, stmt.expr).value)]
    ELSE [s EXCEPT !.stdout = Append(s.stdout, str(visit(s, stmt.expr).value))]

RECURSIVE After(_, _)
After(statements, k) ==
    IF k = 0 THEN Interpreter
    ELSE Effect(After(statements, k - 1), statements[k])

\* The exception statement k raises in the store the statements before it
\* left.
Failure(statements, k) ==
    visit(After(statements, k - 1), statements[k].expr).err

Succeeds(statements, k) == Failure(statements, k).kind = "none"

Store(x, y) == [name \in {<<"x">>, <<"y">>} |->
                   IF name = <<"x">> THEN x ELSE y]

\* C3: a run executes the statements in source order, each against the
\* store left by all statements before it; the final store and the printed
\* values are those of the sequential execution, and
\* let x = 10; let y = x + 5; print(y); prints 15 and leaves {x: 10, y: 15}.
C3_Sequential ==
    /\ pc = "done" =>
          interpreter = After(ast.statements, Len(ast.statements))
    /\ pc = "stepping" => interpreter = After(ast.statements, i)
    /\ (Ran /\ text = ExampleSequential) =>
          /\ pc = "done"
          /\ stdout = <<<<"1", "5">>>>
          /\ symbol_table = Store(PyInt(10), PyInt(15))

\* The example has run in one call of interpret.
C3_Witness ==
    /\ pc = "done" /\ i = 0 /\ text = ExampleSequential
    /\ stdout = <<<<"1", "5">>>>
    /\ symbol_table = Store(PyInt(10), PyInt(15))

\* C4: when statement k fails with a Runtime error the run stops at once:
\* the error reaches the caller, no statement after k is executed, and the
\* store and the output hold exactly the effects of statements 1..k-1.
C4_HaltOnError ==
    /\ pc = "run_failed" =>
          /\ error.kind = "Runtime"
          /\ \E k \in 1..Len(ast.statements) :
                /\ \A m \in 1..(k - 1) : Succeeds(ast.statements, m)
                /\ error = Failure(ast.statements, k)
                /\ interpreter = After(ast.statements, k - 1)
                /\ i \in {0, k}
    /\ pc = "done" =>
          \A k \in 1..Len(ast.statements) : Succeeds(ast.statements, k)
    /\ (Ran /\ text = ExampleFailure) =>
          /\ pc = "run_failed"
          /\ error = Interpreter_error("Division by zero", <<>>)
          /\ stdout = <<<<"2">>>>
          /\ symbol_table = EmptyTable

\* The second of three statements failed in one call of interpret: what the
\* first printed is there, what the third prints is not.
C4_Witness ==
    /\ pc = "run_failed" /\ i = 0 /\ text = ExampleFailure
    /\ error.kind = "Runtime"
    /\ stdout = <<<<"2">>>>

(***************************************************************************)
(* The nodes of a tree, and the states in which there is a tree.           *)
(***************************************************************************)
RECURSIVE SubNodes(_)
SubNodes(node) ==
    {node} \cup
    (IF node.type = "BinOpNode"
     THEN SubNodes(node.left) \cup SubNodes(node.right)
     ELSE IF node.type \in {"AssignNode", "PrintNode"}
     THEN SubNodes(node.expr)
     ELSE IF node.type = "ProgramNode"
     THEN UNION {SubNodes(node.statements[j]) :
                    j \in 1..Len(node.statements)}
     ELSE {})

HasTree == pc \in {"parsed", "stepping", "done", "run_failed"}

Undefined(name) == Interpreter_error("Variable is not defined", name)

\* C5: evaluating Variable(n) returns store[n] when n is in the store, and
\* fails with a Runtime error that names n when it is not; an absent name
\* never reads as a default value.
C5_VariableLookup ==
    /\ HasTree =>
          \A node \in SubNodes(ast) :
              node.type = "VarNode" =>
                  visit(interpreter, node)
                      = IF node.name.s \in DOMAIN symbol_table
                        THEN VReturn(interpreter, symbol_table[node.name.s])
                        ELSE VRaise(interpreter, Undefined(node.name.s))
    /\ (pc = "run_failed" /\ error.msg = "Variable is not defined") =>
          /\ error.name \notin DOMAIN symbol_table
          /\ VarNode(PyStr(error.name)) \in SubNodes(ast)
    /\ (Ran /\ text = ExampleUndefined) =>
          /\ pc = "run_failed"
          /\ error = Undefined(<<"y">>)
          /\ symbol_table = EmptyTable

\* A statement read x from the store and failed on z, which is not in it.
C5_Witness ==
    /\ pc = "run_failed"
    /\ error = Undefined(<<"z">>)
    /\ <<"x">> \in DOMAIN symbol_table
    /\ \E node \in SubNodes(ast) :
          /\ node.type = "BinOpNode"
          /\ VarNode(PyStr(<<"x">>)) \in SubNodes(node.left)
          /\ node.right = VarNode(PyStr(<<"z">>))

DivisionByZero == Interpreter_error("Division by zero", <<>>)

\* The / nodes of the tree whose two operands evaluate in the store.
Divisions ==
    {node \in SubNodes(ast) :
        /\ node.type = "BinOpNode"
        /\ node.op = Op("/")
        /\ visit(interpreter, node.left).err = NoError
        /\ visit(interpreter, node.right).err = NoError}

IsQuotient(q, l, r) == q.n * r.n * l.d = l.n * r.d * q.d

\* C6: a BinaryOp / whose right operand evaluates to zero (a literal 0, a
\* variable holding 0, a sub-expression of value 0) fails with the Runtime
\* error "Division by zero" and no division is performed; when the right
\* operand is not zero that error is not raised and the quotient is returned.
C6_DivisionByZero ==
    /\ HasTree =>
          \A node \in Divisions :
              IF visit(interpreter, node.right).value.n = 0
              THEN visit(interpreter, node)
                       = VRaise(interpreter, DivisionByZero)
              ELSE /\ visit(interpreter, node).err = NoError
                   /\ IsQuotient(visit(interpreter, node).value,
                                 visit(interpreter, node.left).value,
                                 visit(interpreter, node.right).value)
    /\ error.kind # "ZeroDivisionError"
    /\ (pc = "run_failed" /\ error.msg = "Division by zero") =>
          \E node \in Divisions : visit(interpreter, node.right).value.n = 0
    /\ (Ran /\ text = ExampleDivZero) =>
          pc = "run_failed" /\ error = DivisionByZero
    /\ (Ran /\ text = ExampleDivision) =>
          pc = "done" /\ symbol_table[<<"x">>] = PyFloat(2, 1)

\* A division failed whose right operand is a sub-expression of value 0.0.
C6_Witness ==
    /\ pc = "run_failed"
    /\ error = DivisionByZero
    /\ \E node \in Divisions :
          /\ node.right.type = "BinOpNode"
          /\ visit(interpreter, node.right).value = PyFloat(0, 1)

(***************************************************************************)
(* The grammar of the language, as a recognizer of sequences of token      *)
(* kinds:                                                                  *)
(*   program := statement* END_OF_INPUT                                    *)
(*   statement := LET ID ASSIGN expr SEMI | PRINT LPAREN expr RPAREN SEMI  *)
(*   expr := term ((PLUS | MINUS) term)*                                   *)
(*   term := factor ((MUL | DIV) factor)*                                  *)
(*   factor := NUMBER | ID | LPAREN expr RPAREN                            *)
(***************************************************************************)
RECURSIVE IsExpr(_), IsTerm(_)
IsFactor(ts) ==
    \/ Len(ts) = 1 /\ ts[1] \in {"NUMBER", "ID"}
    \/ /\ Len(ts) >= 3
       /\ ts[1] = "LPAREN"
       /\ ts[Len(ts)] = "RPAREN"
       /\ IsExpr(SubSeq(ts, 2, Len(ts) - 1))

IsTerm(ts) ==
    \/ IsFactor(ts)
    \/ \E k \in 2..(Len(ts) - 1) :
          /\ ts[k] \in {"MUL", "DIV"}
          /\ IsFactor(SubSeq(ts, k + 1, Len(ts)))
          /\ IsTerm(SubSeq(ts, 1, k - 1))

IsExpr(ts) ==
    \/ IsTerm(ts)
    \/ \E k \in 2..(Len(ts) - 1) :
          /\ ts[k] \in {"PLUS", "MINUS"}
          /\ IsTerm(SubSeq(ts, k + 1, Len(ts)))
          /\ IsExpr(SubSeq(ts, 1, k - 1))

IsStatement(ts) ==
    \/ /\ Len(ts) >= 5
       /\ SubSeq(ts, 1, 3) = <<"LET", "ID", "ASSIGN">>
       /\ ts[Len(ts)] = "SEMI"
       /\ IsExpr(SubSeq(ts, 4, Len(ts) - 1))
    \/ /\ Len(ts) >= 5
       /\ SubSeq(ts, 1, 2) = <<"PRINT", "LPAREN">>
       /\ SubSeq(ts, Len(ts) - 1, Len(ts)) = <<"RPAREN", "SEMI">>
       /\ IsExpr(SubSeq(ts, 3, Len(ts) - 2))

RECURSIVE IsStatements(_)
IsStatements(ts) ==
    \/ ts = <<>>
    \/ \E k \in 1..Len(ts) :
          /\ ts[k] = "SEMI"
          /\ IsStatement(SubSeq(ts, 1, k))
          /\ IsStatements(SubSeq(ts, k + 1, Len(ts)))

IsProgram(ts) ==
    /\ ts # <<>>
    /\ ts[Len(ts)] = "EOF"
    /\ IsStatements(SubSeq(ts, 1, Len(ts) - 1))

\* The text is a finite token sequence that ends in END_OF_INPUT.
Lexes == tokenize(Lexer(text)).err = NoError

Kinds(toks) == [j \in 1..Len(toks) |-> toks[j].type]

\* C7: parse returns a Program node exactly when the whole token sequence
\* up to END_OF_INPUT is derivable from program := statement* END_OF_INPUT,
\* and fails with a Syntax error otherwise; it never returns a Program and
\* leaves tokens unparsed.
C7_ParseGrammar ==
    /\ pc = "parsed" =>
          /\ Lexes
          /\ IsProgram(Kinds(TextTokens))
          /\ ast.type = "ProgramNode"
          /\ current_token.type = "EOF"
          /\ lexer.pos = Len(text)
          /\ Len(ast.statements)
                = Cardinality(TopLevel(TextTokens, {"SEMI"}))
    /\ (pc = "parse_failed" /\ Lexes) =>
          /\ ~IsProgram(Kinds(TextTokens))
          /\ error.kind = "Parser"
          /\ ast = NoNode

\* A program of three statements was parsed to its END_OF_INPUT.
C7_Witness ==
    /\ pc = "parsed"
    /\ IsProgram(Kinds(TextTokens))
    /\ Len(ast.statements) = 3
    /\ current_token.type = "EOF"

(***************************************************************************)
(* The host that calls get_next_token again and again.                     *)
(***************************************************************************)
NonEof(toks) == {j \in 1..Len(toks) : toks[j].type # "EOF"}

\* END_OF_INPUT comes only after all other tokens.
EofLast(toks) ==
    \A j, k \in 1..Len(toks) :
        (j < k /\ toks[j].type = "EOF") => toks[k].type = "EOF"

\* A call of get_next_token returned a token.
Returned == tokens' # tokens

\* C8: the tokens successive get_next_token calls return are finitely many,
\* END_OF_INPUT comes only after all other tokens, and once END_OF_INPUT was
\* returned every further call returns END_OF_INPUT again and leaves the
\* lexer where it is.
C8_EndOfInput ==
    /\ [](/\ EofLast(tokens)
          /\ Cardinality(NonEof(tokens)) <= lexer.pos
          /\ lexer.pos <= Len(text))
    /\ [][Returned =>
            /\ tokens' = Append(tokens, tokens'[Len(tokens')])
            /\ IF EofCount(tokens) > 0
               THEN /\ tokens'[Len(tokens')] = tokens[Len(tokens)]
                    /\ lexer' = lexer
               ELSE IF tokens'[Len(tokens')].type = "EOF"
               THEN lexer'.pos = Len(text)
               ELSE lexer'.pos > lexer.pos]_vars

\* END_OF_INPUT came back three times after two other tokens.
C8_Witness ==
    /\ pc = "tokenizing"
    /\ Cardinality(NonEof(tokens)) = 2
    /\ EofCount(tokens) = 3
    /\ lexer.pos = Len(text)

(***************************************************************************)
(* The parser object of a state, and the n-th call of get_next_token on    *)
(* the text.                                                               *)
(***************************************************************************)
parser == [lexer |-> lexer, current_token |-> current_token]

HasParser == pc \notin {"new", "tokenizing", "tokenize_failed", "parser_failed"}

RECURSIVE Call(_)
Call(n) ==
    IF n = 0 THEN [lexer |-> Lexer(text), token |-> NoToken, err |-> NoError]
    ELSE get_next_token(Call(n - 1).lexer)

\* The Syntax error that reports expected kind K at the current token.
Mismatch(K) ==
    [NoError EXCEPT !.kind = "Parser", !.msg = "Expected",
                    !.expected = K, !.found = current_token.type,
                    !.line = current_token.line,
                    !.column = current_token.column]

\* C10: when the parser expects token kind K and the current token has
\* another kind F, eat fails with a Syntax error that reports K, F and the
\* line and column of the current token, and the current token is not
\* consumed.
C10_EatMismatch ==
    /\ HasParser =>
          \A K \in TokenTypes \ {current_token.type} :
              eat(parser, K) = Raise(parser, Mismatch(K))
    /\ (pc = "parse_failed" /\ error.msg = "Expected") =>
          /\ error = Mismatch(error.expected)
          /\ error.expected # error.found
          /\ \E n \in 1..(Len(text) + 1) :
                /\ Call(n).err = NoError
                /\ Call(n).token = current_token
                /\ Call(n).lexer = lexer

\* parse failed at a number after the first statement, where an
\* identifier was expected, and the number is still the current token.
C10_Witness ==
    /\ pc = "parse_failed"
    /\ error.expected = "ID"
    /\ error.found = "NUMBER"
    /\ current_token.type = "NUMBER"
    /\ current_token.column = error.column
    /\ Cardinality(TopLevel(TextTokens, {"SEMI"})) >= 1

(***************************************************************************)
(* The characters of a text that belong to no token, no whitespace and no  *)
(* comment.  A scan of the text from place q: in a comment up to the end   *)
(* of the line, in a number before ("int") or after ("frac") its decimal   *)
(* point, in an identifier, or between tokens ("code").  The decimal point *)
(* of a number is part of the number; a second point in the same run is    *)
(* not.  The value is the place of the first such character, or 0.         *)
(***************************************************************************)
ScanStep(mode, c, next) ==
    CASE mode = "comment" -> IF c = "\n" THEN "code" ELSE "comment"
      [] mode = "int" /\ c = "." -> "frac"
      [] mode \in {"int", "frac"} /\ isdigit(c) -> mode
      [] mode = "ident" /\ (isalnum(c) \/ c = "_") -> "ident"
      [] OTHER ->
           CASE c = "/" /\ next = "/" -> "comment"
             [] isdigit(c) -> "int"
             [] isalpha(c) \/ c = "_" -> "ident"
             [] isspace(c) \/ c \in OperatorChars -> "code"
             [] OTHER -> "offending"

RECURSIVE Scan(_, _, _)
Scan(tx, q, mode) ==
    IF mode = "offending" THEN q - 1
    ELSE IF q > Len(tx) THEN 0
    ELSE Scan(tx, q + 1,
              ScanStep(mode, tx[q], IF q < Len(tx) THEN tx[q + 1] ELSE None))

Offending == Scan(text, 1, "code")

Newlines(q) == {k \in 1..(q - 1) : text[k] = "\n"}

LineOf(q) == 1 + Cardinality(Newlines(q))

ColumnOf(q) == IF Newlines(q) = {} THEN q ELSE q - Max(Newlines(q))

\* The tokens of the text before place q.
TokensBefore(q) ==
    SubSeq(tokenize(Lexer(SubSeq(text, 1, q - 1))).tokens, 1,
           Len(tokenize(Lexer(SubSeq(text, 1, q - 1))).tokens) - 1)

IsPrefix(a, b) == Len(a) <= Len(b) /\ a = SubSeq(b, 1, Len(a))

\* C9: a character that is not whitespace, part of a comment, a digit, a
\* letter, an underscore or one of + - * / = ( ) ; makes get_next_token fail
\* with a Lexical error that carries the character and its line and column,
\* after the tokens before it were returned unchanged.  The decimal point
\* of a number is counted as part of the number.
C9_InvalidCharacter ==
    /\ (pc = "tokenizing" /\ Offending # 0) =>
          /\ EofCount(tokens) = 0
          /\ IsPrefix(tokens, TokensBefore(Offending))
    /\ pc = "tokenize_failed" =>
          /\ Offending # 0
          /\ error.kind = "Lexer"
          /\ error.char = text[Offending]
          /\ error.line = LineOf(Offending)
          /\ error.column = ColumnOf(Offending)
          /\ tokens = TokensBefore(Offending)
    /\ error.kind # "ValueError"

(***************************************************************************)
(* The variable store as the Assigns that completed leave it.              *)
(***************************************************************************)
\* The value of an expression in a store.
Evaluation(table, e) ==
    visit([symbol_table |-> table, stdout |-> <<>>], e)

\* The store after the first k statements, begun with table.
RECURSIVE StoreAfter(_, _, _)
StoreAfter(table, statements, k) ==
    IF k = 0 THEN table
    ELSE IF statements[k].type = "AssignNode"
    THEN SetItem(StoreAfter(table, statements, k - 1), statements[k].var.s,
                 Evaluation(StoreAfter(table, statements, k - 1),
                            statements[k].expr).value)
    ELSE StoreAfter(table, statements, k - 1)

\* Statement k completes in the store its predecessors left.
Completes(table, statements, k) ==
    Evaluation(StoreAfter(table, statements, k - 1),
               statements[k].expr).err = NoError

\* The statements that completed when the program was run on table: those
\* before the first that fails.
Completed(table, statements) ==
    Max({c \in 0..Len(statements) :
            \A m \in 1..c : Completes(table, statements, m)})

\* The Assigns to key among the first c statements.
Assigns(statements, c, key) ==
    {m \in 1..c :
        statements[m].type = "AssignNode" /\ statements[m].var.s = key}

Targets(statements, c) ==
    {statements[m].var.s :
        m \in {n \in 1..c : statements[n].type = "AssignNode"}}

\* new is old after the first c statements completed: its keys are those
\* of old and the targets of the Assigns, and under each key is the value
\* the most recent Assign to it stored, or the value it had.
StoreIs(new, old, statements, c) ==
    /\ DOMAIN new = DOMAIN old \cup Targets(statements, c)
    /\ \A key \in DOMAIN new :
          new[key] =
              IF Assigns(statements, c, key) = {} THEN old[key]
              ELSE Evaluation(
                     StoreAfter(old, statements,
                                Max(Assigns(statements, c, key)) - 1),
                     statements[Max(Assigns(statements, c, key))].expr).value

\* C11: the store of a new instance is empty, and after any run and step
\* calls, failed ones included, every key of the store is the target of an
\* Assign that completed on the instance and holds the value the most
\* recent such Assign stored.
C11_StoreInvariant ==
    /\ [](/\ pc \in {"new", "tokenizing", "tokenize_failed", "parser",
                     "parser_failed", "parse_failed", "parsed", "repl"}
               => symbol_table = EmptyTable
          /\ pc = "stepping"
               => StoreIs(symbol_table, EmptyTable, ast.statements, i)
          /\ pc \in {"done", "run_failed", "web_done", "web_failed"}
               => StoreIs(symbol_table, EmptyTable, ast.statements,
                          Completed(EmptyTable, ast.statements)))
    /\ [][pc' \in {"repl_skip", "repl_vars", "repl_eval", "repl_exit"} =>
            IF pc' = "repl_eval" /\ ast' # NoNode
            THEN StoreIs(symbol_table', symbol_table, ast'.statements,
                         Completed(symbol_table, ast'.statements))
            ELSE symbol_table' = symbol_table]_vars

\* On an instance that holds x, a line stored y and then failed at its
\* second Assign: y is in the store, x holds what it held.
C11_Witness ==
    /\ pc = "repl_eval"
    /\ error = DivisionByZero
    /\ Completed(EmptyTable, ast.statements) = 0
    /\ symbol_table = Store(PyInt(2), PyInt(2))

(***************************************************************************)
(* Snapshots of the store.                                                 *)
(***************************************************************************)
snapshot == get_symbol_table(interpreter)

\* The names and values a holder of a snapshot may put in it.
Names == {<<"x">>, <<"y">>, <<"w">>}

\* C12: get_symbol_table returns a mapping equal to the current store that
\* does not alias it: calls with no Assign in between return equal mappings,
\* a later Assign does not change a snapshot taken earlier, and changing a
\* snapshot does not change the interpreter's store.
C12_Snapshot ==
    /\ [](/\ items(snapshot, interpreter) = symbol_table
          /\ \A key \in Names :
                /\ setitem(snapshot, interpreter, key, PyInt(7)).s
                      = interpreter
                /\ items(setitem(snapshot, interpreter, key, PyInt(7)).d,
                         interpreter)
                      = SetItem(symbol_table, key, PyInt(7))
          /\ pc \in {"stepping", "done", "run_failed"} =>
                \A k \in 1..Len(timeline) :
                    timeline[k].variables
                        = StoreAfter(EmptyTable, ast.statements, k))
    /\ [][/\ items(snapshot, interpreter') = symbol_table
          /\ symbol_table' = symbol_table =>
                items(get_symbol_table(interpreter'), interpreter')
                    = items(snapshot, interpreter)]_vars

\* Two statements were stepped: the snapshot the host took after the first
\* differs from the store the second left.
C12_Witness ==
    /\ pc \in {"stepping", "done"}
    /\ Len(timeline) = 2
    /\ timeline[1].variables # symbol_table
    /\ timeline[2].variables = symbol_table
    /\ timeline[1].variables = StoreAfter(EmptyTable, ast.statements, 1)

(***************************************************************************)
(* Print statements and the output.                                        *)
(***************************************************************************)
Prints == {node \in SubNodes(ast) : node.type = "PrintNode"}

HasOutput(s) == "output_lines" \in DOMAIN s

\* Visiting the Print node in s appends the string form of the value to the
\* output sequence s holds and writes nothing to sys.stdout, or fails and
\* appends nothing.
PrintAppends(s, node) ==
    IF visit(s, node.expr).err = NoError
    THEN /\ visit(s, node).err = NoError
         /\ HasOutput(s)
         /\ HasOutput(visit(s, node).s)
         /\ visit(s, node).s.output_lines
               = Append(s.output_lines, str(visit(s, node.expr).value))
         /\ visit(s, node).s.stdout = s.stdout
         /\ visit(s, node).s.symbol_table = s.symbol_table
    ELSE /\ visit(s, node).err = visit(s, node.expr).err
         /\ visit(s, node).s = s

HasInterpreter == HasTree \/ pc \in {"web_done", "web_failed"}

\* C13: a successful Print appends exactly one entry, the string form of
\* the value, to the interpreter's in-memory output sequence, writes nothing
\* to the console and leaves the store unchanged; a Print whose expression
\* fails appends nothing.
C13_PrintOutput ==
    HasInterpreter => \A node \in Prints : PrintAppends(interpreter, node)

(***************************************************************************)
(* The kind of the result of a binary operation.                           *)
(***************************************************************************)
Operations == {node \in SubNodes(ast) : node.type = "BinOpNode"}

IsNumber(v) == v.k \in {"int", "float"} /\ v.d > 0 /\ v.s = <<>>

\* Python's == on two numbers.
PyEq(l, r) == l.n * r.d = r.n * l.d

\* The kind the promotion rule gives the result of op on l and r.
Promoted(op, l, r) ==
    IF op = <<"/">> THEN "float"
    ELSE IF l.k = "int" /\ r.k = "int" THEN "int"
    ELSE "float"

\* Where the operands of node and node itself evaluate in s, the result is
\* a number of the promoted kind.
Promotes(s, node) ==
    Let(visit(s, node.left), LAMBDA l :
    Let(visit(s, node.right), LAMBDA r :
    Let(visit(s, node), LAMBDA v :
    (l.err = NoError /\ r.err = NoError /\ v.err = NoError)
        => /\ IsNumber(v.value)
           /\ v.value.k = Promoted(node.op.s, l.value, r.value)
           /\ v.value.k = "int" => v.value.d = 1)))

\* C14: the result of + - * is an int when both operands are ints and a
\* float when either is a float; the result of / is always a float, and
\* 10 / 5 is the float 2.0, equal in value to the int 2.
C14_NumericPromotion ==
    /\ HasInterpreter => \A node \in Operations : Promotes(interpreter, node)
    /\ (pc = "done" /\ text = ExampleDivision)
        => /\ symbol_table[<<"x">>] = PyFloat(2, 1)
           /\ symbol_table[<<"x">>] # PyInt(2)
           /\ PyEq(symbol_table[<<"x">>], PyInt(2))
    /\ (pc = "done" /\ text = ExampleComplex)
        => symbol_table[<<"x">>] = PyFloat(10, 1)
    /\ (pc = "done" /\ text = ExampleFloat)
        => /\ symbol_table[<<"x">>] = PyFloat(7, 2)
           /\ symbol_table[<<"y">>] = PyFloat(-1, 2)

\* The exact quotient of two ints is computed, and so are a sum and a
\* product with one float operand.
C14_Witness ==
    /\ pc = "done"
    /\ \E node \in Operations :
          /\ node.op.s = <<"/">>
          /\ visit(interpreter, node.left).value.k = "int"
          /\ visit(interpreter, node.right).value.k = "int"
          /\ visit(interpreter, node).err = NoError
          /\ visit(interpreter, node).value.d = 1
    /\ \E node \in Operations :
          /\ node.op.s \in {<<"+">>, <<"*">>}
          /\ visit(interpreter, node.left).err = NoError
          /\ visit(interpreter, node.right).err = NoError
          /\ visit(interpreter, node.left).value.k
                # visit(interpreter, node.right).value.k

(***************************************************************************)
(* Comments.  A comment starts at the first // of a line and ends before   *)
(* the end of the line, or at the end of the input.                        *)
(***************************************************************************)
CommentStarts(tx) ==
    {k \in 1..(Len(tx) - 1) : tx[k] = "/" /\ tx[k + 1] = "/"}

InComment(tx, q) ==
    \E k \in CommentStarts(tx) :
        k <= q /\ \A j \in k..q : tx[j] # "\n"

\* The text with each comment removed: the text before the first comment,
\* and the text from the end of its line on with each comment removed.
RECURSIVE Uncommented(_)
Uncommented(tx) ==
    IF CommentStarts(tx) = {} THEN tx
    ELSE Let(Min(CommentStarts(tx)), LAMBDA k :
         SubSeq(tx, 1, k - 1)
            \o (IF \E e \in k..Len(tx) : tx[e] = "\n"
                THEN Uncommented(SubSeq(tx,
                        Min({e \in k..Len(tx) : tx[e] = "\n"}), Len(tx)))
                ELSE <<>>))

EndsInComment(tx) == Len(tx) > 0 /\ InComment(tx, Len(tx))

\* The same token: kind and value, and the place of a token that is not
\* END_OF_INPUT.
SameToken(a, b) ==
    /\ a.type = b.type
    /\ a.value = b.value
    /\ a.type # "EOF" => a.line = b.line /\ a.column = b.column

SameTokens(a, b) ==
    Len(a) = Len(b) /\ \A j \in 1..Len(a) : SameToken(a[j], b[j])

\* The token starts at a place outside every comment and its value holds
\* no //.
OutsideComments(tok) ==
    /\ \E q \in 1..Len(text) :
          /\ ~InComment(text, q)
          /\ LineOf(q) = tok.line
          /\ ColumnOf(q) = tok.column
    /\ \A j \in 1..(Len(tok.value.s) - 1) :
          ~(tok.value.s[j] = "/" /\ tok.value.s[j + 1] = "/")

Tokenized == tokenize(Lexer(text))

Plain == tokenize(Lexer(Uncommented(text)))

NumberRun(lx) ==
    {q \in (lx.pos + 1)..Len(lx.text) :
        \A j \in (lx.pos + 1)..q : isdigit(lx.text[j]) \/ lx.text[j] = "."}

Points(lx) == {q \in NumberRun(lx) : lx.text[q] = "."}

SecondPoint(lx) == Min(Points(lx) \ {Min(Points(lx))})

\* The places of the number when a second point ends it.
NumberPlaces(lx) ==
    IF Cardinality(Points(lx)) < 2 THEN NumberRun(lx)
    ELSE {q \in NumberRun(lx) : q < SecondPoint(lx)}

AtNumber ==
    /\ pc \in {"new", "tokenizing"}
    /\ lexer.current_char # None
    /\ isdigit(lexer.current_char)

\* C16: at a digit, get_next_token returns without an error a NUMBER token
\* of the digits with at most one point, an int when there is no point and a
\* float when there is one, and leaves the lexer at the second point of the
\* run, if there is one, for the next call.
C16_NumberRule ==
    AtNumber =>
        Let(get_next_token(lexer), LAMBDA r :
        /\ r.err = NoError
        /\ r.token.type = "NUMBER"
        /\ r.lexer.pos = Max(NumberPlaces(lexer))
        /\ r.token.value.k
              = (IF Points(lexer) = {} THEN "int" ELSE "float")
        /\ Cardinality(Points(lexer)) >= 2
            => r.lexer.current_char = ".")

(***************************************************************************)
(* Enumerations of the tokens of a text: by Lexer.tokenize on a new Lexer, *)
(* by a host's get_next_token calls, by the parser's calls.                *)
(***************************************************************************)
FromStart == tokenize(Lexer(text))

\* The tokens seen, followed by those the lexer goes on to return, are the
\* tokens tokenize returns from the start, with the same error if any.
Resumes(seen, lx, whole) ==
    Let(tokenize(lx), LAMBDA rest :
    /\ seen \o rest.tokens = whole.tokens
    /\ rest.err = whole.err)

ErrorKinds == {"Lexer", "Parser", "Runtime"}

Failed ==
    pc \in {"tokenize_failed", "parser_failed", "parse_failed", "run_failed",
            "web_failed"}

\* C18: a host has failed exactly when it holds an error; the error is of
\* one of the three kinds, Lexical when the lexer detected it (also when the
\* parser was calling it), Syntax when the parser did, Runtime when the
\* interpreter did.
C18_ErrorKinds ==
    /\ Failed <=> error # NoError
    /\ Failed => error.kind \in ErrorKinds
    /\ pc \in {"tokenize_failed", "parser_failed"} => error.kind = "Lexer"
    /\ pc = "parse_failed" => error.kind \in {"Lexer", "Parser"}
    /\ pc \in {"run_failed", "web_failed"} => error.kind = "Runtime"

(***************************************************************************)
(* Statement by statement (the timeline loop of web_app.py) and at once    *)
(* (interpret).                                                            *)
(***************************************************************************)
\* The program of the statements from the j-th to the k-th.
Part(j, k) == ProgramNode(SubSeq(ast.statements, j, k))

Stepped == pc \in {"stepping", "done", "run_failed"} /\ i > 0

\* The statements visited without an exception.
Passed == IF pc = "run_failed" THEN i - 1 ELSE i

\* C19: after the timeline loop has visited i statements one at a time on
\* a new Interpreter, the interpreter (store and output) and the error are
\* those of interpret on the program of these i statements; the store after
\* each statement, as the timeline recorded it, is the store interpret
\* reaches on the statements up to it; the statement that raised is the one
\* at which interpret raises; and interpret on the statements still to come,
\* from the store and output reached, ends as interpret on the whole program
\* does from the start.
C19_StepwiseEquivalent ==
    Stepped =>
        /\ interpret(Interpreter, Part(1, i)).s = interpreter
        /\ interpret(Interpreter, Part(1, i)).err = error
        /\ interpret(Interpreter, Part(1, Passed)).err = NoError
        /\ Len(timeline) = Passed
        /\ \A k \in 1..Len(timeline) :
              timeline[k].variables
                 = interpret(Interpreter, Part(1, k)).s.symbol_table
        /\ Let(interpret(Interpreter, ast), LAMBDA whole :
           IF error # NoError
           THEN whole.s = interpreter /\ whole.err = error
           ELSE /\ interpret(interpreter, Part(i + 1, Len(ast.statements))).s
                      = whole.s
                /\ interpret(interpreter, Part(i + 1, Len(ast.statements))).err
                      = whole.err)

\* The second of three statements raised after the first had printed.
C19_Witness ==
    /\ pc = "run_failed"
    /\ i = 2
    /\ Len(ast.statements) = 3
    /\ Len(timeline) = 1
    /\ stdout # <<>>
    /\ interpret(Interpreter, ast).err = error

(***************************************************************************)
(* The value of a token.                                                   *)
(***************************************************************************)
HasValue(tok) == tok.value # PyNone

\* A number for NUMBER, the matched text for an identifier or a keyword, and
\* no value for every other kind.
ValueByKind(tok) ==
    CASE tok.type = "NUMBER" -> tok.value.k \in {"int", "float"}
      [] tok.type \in {"ID", "LET", "PRINT"} ->
           tok.value.k = "str" /\ tok.value.s # <<>>
      [] OTHER -> ~HasValue(tok)

\* C20: every token the lexer has returned, to a host or to the parser,
\* carries a value only when it is a NUMBER, an identifier or a keyword.
C20_TokenValue ==
    /\ \A j \in 1..Len(tokens) : ValueByKind(tokens[j])
    /\ current_token # NoToken => ValueByKind(current_token)

(***************************************************************************)
(* The order of evaluation in a binary operation.                          *)
(***************************************************************************)
\* The error of node in s is that of its left operand when the left operand
\* fails, else that of its right operand when that fails, else that of the
\* operator applied to the two values.
LeftFirst(s, node) ==
    Let(visit(s, node.left), LAMBDA l :
    Let(visit(s, node.right), LAMBDA r :
    Let(visit(s, node), LAMBDA v :
    /\ v.s = s
    /\ IF l.err # NoError THEN v.err = l.err
       ELSE IF r.err # NoError THEN v.err = r.err
       ELSE IF node.op = Op("/") /\ r.value.n = 0
       THEN v.err = DivisionByZero
       ELSE v.err = NoError)))

BothFail(s, node) ==
    /\ visit(s, node.left).err # NoError
    /\ visit(s, node.right).err # NoError
    /\ visit(s, node.left).err # visit(s, node.right).err

UndefinedOverZero == Join(<<"let", "x", "=", "y", "/", "0", ";">>)

\* C21: a binary operation fails with the error of its left operand when
\* that fails, also when the right operand would fail too; with the error of
\* its right operand when only that fails; and the operator is applied, and
\* can fail, only when both operands have a value.  y / 0 with y undefined
\* fails with the undefined variable y.
C21_LeftBeforeRight ==
    /\ HasInterpreter => \A node \in Operations : LeftFirst(interpreter, node)
    /\ (text = UndefinedOverZero /\ pc \in {"run_failed", "web_failed"})
        => error = Undefined(<<"y">>)
    /\ (pc \in {"run_failed", "web_failed"} /\ Len(ast.statements) = 1
            /\ ast.statements[1].expr.type = "BinOpNode")
        => Let(visit(Interpreter, ast.statements[1].expr.left), LAMBDA l :
           Let(visit(Interpreter, ast.statements[1].expr.right), LAMBDA r :
           error = IF l.err # NoError THEN l.err
                   ELSE IF r.err # NoError THEN r.err
                   ELSE DivisionByZero))

\* A run failed on an operation whose two operands fail with different
\* errors.
C21_Witness ==
    /\ pc = "run_failed"
    /\ Len(ast.statements) = 1
    /\ ast.statements[1].expr.type = "BinOpNode"
    /\ BothFail(Interpreter, ast.statements[1].expr)
    /\ error = visit(Interpreter, ast.statements[1].expr.left).err
    /\ error = DivisionByZero

(***************************************************************************)
(* The line and the column of a token.                                     *)
(***************************************************************************)
\* The token is what the text holds from place q on: END_OF_INPUT at the
\* end of the text, the characters of a name or a keyword, an operator's
\* character, the first digit of a number.
StartsAt(tok, q) ==
    CASE tok.type = "EOF" -> q = Len(text) + 1
      [] tok.type \in {"ID", "LET", "PRINT"} ->
           /\ q + Len(tok.value.s) - 1 <= Len(text)
           /\ SubSeq(text, q, q + Len(tok.value.s) - 1) = tok.value.s
           /\ q > 1 => ~(isalpha(text[q - 1]) \/ text[q - 1] = "_")
      [] tok.type = "NUMBER" ->
           /\ q <= Len(text)
           /\ isdigit(text[q])
           /\ q > 1 => ~(isdigit(text[q - 1]) \/ text[q - 1] = ".")
      [] OTHER -> q <= Len(text) /\ <<text[q]>> = tok.value.s

\* The token carries the line and the column of the place where it starts.
Placed(tok) ==
    /\ tok.line >= 1
    /\ tok.column >= 1
    /\ \E q \in 1..(Len(text) + 1) :
          /\ LineOf(q) = tok.line
          /\ ColumnOf(q) = tok.column
          /\ StartsAt(tok, q)

InLexer ==
    pc \in {"new", "tokenizing", "tokenize_failed", "parser",
            "parser_failed", "parsed", "parse_failed"}

\* C22: the lexer's line is one more than the number of newlines consumed
\* and its column one more than the number of characters consumed since the
\* last of them, whatever the characters are; the token a host received last
\* and the parser's current token carry the line and the column, from 1, of
\* their first character, END_OF_INPUT those of the end of the text.
C22_TokenPosition ==
    /\ InLexer
        => /\ lexer.line = LineOf(lexer.pos + 1)
           /\ lexer.column = ColumnOf(lexer.pos + 1)
    /\ (pc = "tokenizing" /\ tokens # <<>>) => Placed(tokens[Len(tokens)])
    /\ (pc \in {"parser", "parsed", "parse_failed"} /\ current_token # NoToken)
        => Placed(current_token)

\* A host received a number that follows tabs on the third line, after
\* tokens of the first line.
C22_Witness ==
    /\ pc = "tokenizing"
    /\ Len(tokens) > 2
    /\ tokens[Len(tokens)].type = "NUMBER"
    /\ tokens[Len(tokens)].line = 3
    /\ tokens[Len(tokens)].column = 3
    /\ text[lexer.pos - 2] = "\t"
    /\ tokens[1].column = 2

(***************************************************************************)
(* Where parsing fails.                                                    *)
(***************************************************************************)
\* Parser(Lexer(tx)).parse()
ParseText(tx) ==
    Let(Parser(Lexer(tx)), LAMBDA r :
    IF r.err.kind # "none" THEN r ELSE parse(r.p))

\* Every token of tx is accepted: parsing tx succeeds, or fails only for
\* want of more tokens, at END_OF_INPUT.
Accepted(tx) ==
    Let(ParseText(tx), LAMBDA r :
    \/ r.err = NoError
    \/ r.err.kind = "Parser" /\ r.p.current_token.type = "EOF")

ParserFailed == pc \in {"parser_failed", "parse_failed"}

\* C23: a Lexical error of the parser's lexer is at the first invalid
\* character of the text, and every token before that character was
\* accepted; a Syntax error is at the current token, which is a token before
\* the first invalid character, the lexer has consumed the text up to the
\* end of that token and no further, and the error is that of parsing the
\* text cut off after the token.
C23_EarliestError ==
    /\ (ParserFailed /\ error.kind = "Lexer")
        => /\ Offending # 0
           /\ lexer.pos = Offending - 1
           /\ error.line = LineOf(Offending)
           /\ error.column = ColumnOf(Offending)
           /\ Accepted(SubSeq(text, 1, Offending - 1))
    /\ (ParserFailed /\ error.kind = "Parser")
        => /\ pc = "parse_failed"
           /\ error.line = current_token.line
           /\ error.column = current_token.column
           /\ Offending = 0 \/ lexer.pos < Offending
           /\ \E n \in 1..(Len(text) + 1) :
                 /\ Call(n).token = current_token
                 /\ Call(n).lexer = lexer
                 /\ n > 1 => Call(n - 1).lexer.pos < lexer.pos
                             \/ current_token.type = "EOF"
           /\ current_token.type # "EOF"
               => /\ ~isspace(text[lexer.pos])
                  /\ Accepted(SubSeq(text, 1,
                        lexer.pos - (lexer.column - current_token.column)))
           /\ ParseText(SubSeq(text, 1, lexer.pos)).err = error

\* A Syntax error at a token that an invalid character follows.
C23_Witness ==
    /\ pc = "parse_failed"
    /\ error.kind = "Parser"
    /\ Offending > lexer.pos
    /\ current_token.type = "NUMBER"
    /\ current_token.column > 1

(***************************************************************************)
(* An Assign whose expression fails.                                       *)
(***************************************************************************)
AssignNodes ==
    IF ast = NoNode THEN {}
    ELSE {node \in SubNodes(ast) : node.type = "AssignNode"}

\* Visiting the Assign in s raises what its expression raises and leaves s
\* as it is.
FailsClean(s, node) ==
    visit(s, node.expr).err # NoError
        => visit(s, node) = VRaise(s, visit(s, node.expr).err)

\* C24: an Assign whose expression fails raises that error and leaves the
\* interpreter as it was.  A step of the timeline loop that fails at an
\* Assign leaves the store unchanged, and a repl line that fails at an Assign
\* leaves the store as the statements before it left it: the target keeps
\* the value it had, or stays absent.
C24_FailedAssign ==
    /\ [](/\ \A node \in AssignNodes : FailsClean(interpreter, node)
          /\ (pc \in {"run_failed", "web_failed"} /\ text = ExampleSelf)
               => symbol_table = EmptyTable
          /\ (pc \in {"run_failed", "web_failed"} /\ text = ExampleReassign)
               => /\ DOMAIN symbol_table = {<<"x">>}
                  /\ symbol_table[<<"x">>] = PyInt(2))
    /\ [][/\ (pc' = "run_failed" /\ i' = i + 1
                /\ ast.statements[i'].type = "AssignNode")
               => interpreter' = interpreter
          /\ (pc' = "repl_eval" /\ ast' # NoNode /\ error' # NoError)
               => /\ symbol_table'
                        = StoreAfter(symbol_table, ast'.statements,
                                     Completed(symbol_table, ast'.statements))
                  /\ Completed(symbol_table, ast'.statements) = 0
                       => symbol_table' = symbol_table]_vars

\* On an instance where x holds 2, a line failed at an Assign to x after an
\* Assign to y: x still holds 2.
C24_Witness ==
    /\ pc = "repl_eval"
    /\ error = DivisionByZero
    /\ ast # NoNode
    /\ Len(ast.statements) = 3
    /\ ast.statements[2].type = "AssignNode"
    /\ ast.statements[2].var.s = <<"x">>
    /\ visit(interpreter, ast.statements[2].expr).err = DivisionByZero
    /\ symbol_table = Store(PyInt(2), PyInt(2))

(***************************************************************************)
(* The web hosts under two requests whose handling overlaps.  Flask's      *)
(* app.run serves each request on a thread of its own; the threads share   *)
(* the process's sys.stdout.  host is the server: "web_app" (web_app.py's  *)
(* execute_code) or "app" (app.py's execute).  sys_stdout is "console" or  *)
(* the request whose output_buffer sys.stdout is.                          *)
(***************************************************************************)
Requests == {"first", "second"}

WebCodes ==
    {Join(<<"print", "(", "2", ")", ";">>),
     Join(<<"let", "x", "=", "2", ";", "print", "(", "x", "+", "x", ")", ";",
            "print", "(", "x", ")", ";">>),
     Join(<<"print", "(", "1", ")", ";", "let", "y", "=", "1", "/", "0", ";",
            "print", "(", "y", ")", ";">>),
     Join(<<"let", "y", "=", "1", ";">>)}

NoResponse == [success |-> "none"]

Request(code) ==
    [pc |-> "received", code |-> code, output_buffer |-> <<>>,
     ast |-> NoNode, interpreter |-> Interpreter, k |-> 0,
     error |-> NoError, response |-> NoResponse]

WebInit ==
    /\ pc = "web"
    /\ lexer = Lexer(<<>>)
    /\ tokens = <<>>
    /\ current_token = NoToken
    /\ ast = NoNode
    /\ interpreter = Interpreter
    /\ i = 0
    /\ error = NoError
    /\ timeline = <<>>
    /\ \E host \in {"web_app", "app"} :
       \E codes \in [Requests -> WebCodes] :
          web = [host |-> host, sys_stdout |-> "console", console |-> <<>>,
                 req |-> [r \in Requests |-> Request(codes[r])]]

\* sys.stdout.write of the lines by the thread that prints: they go where
\* sys.stdout is at that moment.
write(w, lines) ==
    IF w.sys_stdout = "console"
    THEN [w EXCEPT !.console = w.console \o lines]
    ELSE [w EXCEPT !.req[w.sys_stdout].output_buffer =
                       w.req[w.sys_stdout].output_buffer \o lines]

\* output_buffer = io.StringIO(); sys.stdout = output_buffer
Redirect(r) ==
    /\ web.host = "web_app"
    /\ web.req[r].pc = "received"
    /\ web' = [web EXCEPT !.sys_stdout = r, !.req[r].pc = "redirected"]

\* lexer = Lexer(code); parser = Parser(lexer); ast = parser.parse();
\* interpreter = Interpreter()
WebParse(r) ==
    /\ web.host = "web_app"
    /\ web.req[r].pc = "redirected"
    /\ Let(ParseText(web.req[r].code), LAMBDA a :
       web' = [web EXCEPT !.req[r].ast = a.node,
                          !.req[r].error = a.err,
                          !.req[r].pc = IF a.err.kind # "none" THEN "raised"
                                        ELSE "running"])

\* One iteration of the timeline loop: interpreter.visit(stmt), whose
\* print(value) writes to sys.stdout.
WebVisit(r) ==
    /\ web.host = "web_app"
    /\ web.req[r].pc = "running"
    /\ web.req[r].k < Len(web.req[r].ast.statements)
    /\ Let(visit(web.req[r].interpreter,
                 web.req[r].ast.statements[web.req[r].k + 1]), LAMBDA v :
       web' = [write(web, v.s.stdout) EXCEPT
                  !.req[r].interpreter = [v.s EXCEPT !.stdout = <<>>],
                  !.req[r].k = web.req[r].k + 1,
                  !.req[r].error = v.err,
                  !.req[r].pc = IF v.err.kind # "none" THEN "raised"
                                ELSE "running"])

\* output = output_buffer.getvalue(); symbol_table =
\* interpreter.get_symbol_table(); sys.stdout = sys.__stdout__; return
WebRespond(r) ==
    /\ web.host = "web_app"
    /\ web.req[r].pc = "running"
    /\ web.req[r].k = Len(web.req[r].ast.statements)
    /\ web' = [web EXCEPT
                  !.sys_stdout = "console",
                  !.req[r].pc = "responded",
                  !.req[r].response =
                      [success |-> "True",
                       output |-> web.req[r].output_buffer,
                       symbol_table |->
                           items(get_symbol_table(web.req[r].interpreter),
                                 web.req[r].interpreter),
                       error |-> NoError]]

\* except Exception as e: sys.stdout = sys.__stdout__; return
WebFail(r) ==
    /\ web.host = "web_app"
    /\ web.req[r].pc = "raised"
    /\ web' = [web EXCEPT
                  !.sys_stdout = "console",
                  !.req[r].pc = "responded",
                  !.req[r].response =
                      [success |-> "False",
                       output |-> web.req[r].output_buffer,
                       symbol_table |-> EmptyTable,
                       error |-> web.req[r].error]]

\* app.py's execute: lexer, parser, ast = parser.parse()
AppParse(r) ==
    /\ web.host = "app"
    /\ web.req[r].pc = "received"
    /\ Let(ParseText(web.req[r].code), LAMBDA a :
       web' = [web EXCEPT !.req[r].ast = a.node,
                          !.req[r].error = a.err,
                          !.req[r].pc = IF a.err.kind # "none" THEN "raised"
                                        ELSE "running"])

\* interpreter = WebInterpreter(); interpreter.interpret(ast)
AppInterpret(r) ==
    /\ web.host = "app"
    /\ web.req[r].pc = "running"
    /\ web.req[r].k = 0
    /\ Let(interpret(WebInterpreter, web.req[r].ast), LAMBDA v :
       web' = [write(web, v.s.stdout) EXCEPT
                  !.req[r].interpreter = [v.s EXCEPT !.stdout = <<>>],
                  !.req[r].k = 1,
                  !.req[r].error = v.err,
                  !.req[r].pc = IF v.err.kind # "none" THEN "raised"
                                ELSE "running"])

\* return jsonify(...) of execute, with or without an exception
AppRespond(r) ==
    /\ web.host = "app"
    /\ \/ web.req[r].pc = "running" /\ web.req[r].k = 1
       \/ web.req[r].pc = "raised"
    /\ web' = [web EXCEPT
                  !.req[r].pc = "responded",
                  !.req[r].response =
                      IF web.req[r].pc = "raised"
                      THEN [success |-> "False", output |-> <<>>,
                            symbol_table |-> EmptyTable,
                            error |-> web.req[r].error]
                      ELSE [success |-> "True",
                            output |-> web.req[r].interpreter.output_lines,
                            symbol_table |->
                                web.req[r].interpreter.symbol_table,
                            error |-> NoError]]

Serve(r) ==
    \/ Redirect(r)
    \/ WebParse(r)
    \/ WebVisit(r)
    \/ WebRespond(r)
    \/ WebFail(r)
    \/ AppParse(r)
    \/ AppInterpret(r)
    \/ AppRespond(r)

WebNext ==
    /\ \E r \in Requests : Serve(r)
    /\ UNCHANGED <<pc, lexer, tokens, current_token, ast, interpreter, i,
                   error, timeline>>

WebSpec == WebInit /\ [][WebNext]_vars

\* The response to a request for the code when no other request is served.
Alone(host, code) ==
    Let(ParseText(code), LAMBDA a :
    IF a.err.kind # "none"
    THEN [success |-> "False", output |-> <<>>, symbol_table |-> EmptyTable,
          error |-> a.err]
    ELSE Let(interpret(IF host = "app" THEN WebInterpreter ELSE Interpreter,
                       a.node), LAMBDA v :
         IF v.err.kind # "none"
         THEN [success |-> "False",
               output |-> IF host = "app" THEN <<>> ELSE v.s.stdout,
               symbol_table |-> EmptyTable, error |-> v.err]
         ELSE [success |-> "True",
               output |-> IF host = "app" THEN v.s.output_lines
                          ELSE v.s.stdout,
               symbol_table |-> v.s.symbol_table, error |-> NoError]))

Responded(r) == pc = "web" /\ web.req[r].pc = "responded"

\* C25: the response to each of two requests served at the same time, its
\* output and its symbol table, is the response to its code served alone.
C25_RequestIsolation ==
    \A r \in Requests :
        Responded(r) => web.req[r].response = Alone(web.host, web.req[r].code)

(***************************************************************************)
(* Progress of the loops of the lexer and of the parser.                   *)
(***************************************************************************)
\* The lexer of the text when it has consumed q characters.
LexerAt(q) ==
    [text |-> text, pos |-> q,
     current_char |-> IF q >= Len(text) THEN None ELSE text[q + 1],
     line |-> LineOf(q + 1), column |-> ColumnOf(q + 1)]

\* to is further in the text than from, and not beyond its end.
Further(from, to) == from.pos < to.pos /\ to.pos <= Len(text)

\* The loops of the lexer, entered at lx where their condition holds, end
\* further in the text, the loop of get_next_token with a token, at the end
\* of the text or with an error.
LexerProgress(lx) ==
    /\ lx.current_char # None => advance(lx).pos = lx.pos + 1
    /\ (lx.current_char # None /\ isspace(lx.current_char))
        => /\ Further(lx, skip_whitespace(lx))
           /\ skip_whitespace(lx) = skip_whitespace(advance(lx))
    /\ (lx.current_char = "/" /\ peek(lx) = "/")
        => /\ Further(advance(lx), skip_comment(lx))
           /\ skip_to_eol(lx) = skip_to_eol(advance(lx))
    /\ (lx.current_char # None /\ isdigit(lx.current_char))
        => /\ Further(lx, number_loop(lx, <<>>).lexer)
           /\ number_loop(lx, <<>>).lexer.pos
                 = lx.pos + Len(number_loop(lx, <<>>).result)
    /\ (lx.current_char # None
            /\ (isalpha(lx.current_char) \/ lx.current_char = "_"))
        => /\ Further(lx, identifier_loop(lx, <<>>).lexer)
           /\ identifier_loop(lx, <<>>).lexer.pos
                 = lx.pos + Len(identifier_loop(lx, <<>>).result)
    /\ Let(get_next_token(lx), LAMBDA r :
       /\ lx.pos <= r.lexer.pos
       /\ r.lexer.pos <= Len(text)
       /\ r.err = NoError
           => IF r.token.type = "EOF" THEN r.lexer.pos = Len(text)
              ELSE Further(lx, r.lexer))

\* The tokens the parser has not consumed: its current token and those its
\* lexer goes on to return, END_OF_INPUT not counted.
Remaining(p) ==
    Cardinality(NonEof(<<p.current_token>>))
        + Cardinality(NonEof(tokenize(p.lexer).tokens))

\* r is the return of a parser method called with m tokens not consumed:
\* tokens were consumed.
Consumes(m, r) == r.err = NoError => Remaining(r.p) < m

Operand0 == NumberNode(PyInt(0))

\* The methods of the parser and one iteration of each of its loops, at p,
\* consume at least one token when they return; a loop whose condition does
\* not hold returns at once.
ParserProgress(p) ==
    Let(Remaining(p), LAMBDA m :
    /\ Consumes(m, factor(p))
    /\ Consumes(m, term(p))
    /\ Consumes(m, expr(p))
    /\ IF p.current_token.type \in {"MUL", "DIV"}
       THEN Consumes(m, term_loop(p, Operand0))
       ELSE term_loop(p, Operand0) = Return(p, Operand0)
    /\ IF p.current_token.type \in {"PLUS", "MINUS"}
       THEN Consumes(m, expr_loop(p, Operand0))
       ELSE expr_loop(p, Operand0) = Return(p, Operand0)
    /\ IF p.current_token.type # "EOF"
       THEN Let(statement(p), LAMBDA s :
            /\ Consumes(m, s)
            /\ Consumes(m, program_loop(p, <<>>))
            /\ s.err = NoError
                => program_loop(p, <<>>) = program_loop(s.p, <<s.node>>))
       ELSE program_loop(p, <<>>) = Return(p, ProgramNode(<<>>)))

\* The parser p and the parsers it becomes as its tokens are consumed one
\* by one, up to END_OF_INPUT or an error of the lexer.
RECURSIVE ParsersFrom(_)
ParsersFrom(p) ==
    IF p.current_token.type = "EOF" THEN {p}
    ELSE Let(get_next_token(p.lexer), LAMBDA r :
         IF r.err # NoError THEN {p}
         ELSE {p} \cup ParsersFrom([lexer |-> r.lexer,
                                    current_token |-> r.token]))

\* The parser of the text at each of its tokens.
Parsers ==
    Let(Parser(Lexer(text)), LAMBDA r :
    IF r.err # NoError THEN {} ELSE ParsersFrom(r.p))

\* C26: no loop runs on without consuming.  The lexer never stands beyond
\* the end of the text, and a host has received at most as many tokens
\* other than END_OF_INPUT as the text has characters.  From every place of
\* a text each loop of the lexer ends further in the text, within it; from
\* every token of a text each parser method and each iteration of a parser
\* loop that returns has consumed a token; and tokenize and parse end with
\* END_OF_INPUT as the last token, a Program, or an error.
C26_Terminates ==
    /\ lexer.pos >= 0
    /\ lexer.pos <= Len(text)
    /\ Cardinality(NonEof(tokens)) <= lexer.pos
    /\ pc = "new"
        => /\ \A q \in 0..Len(text) : LexerProgress(LexerAt(q))
           /\ \A p \in Parsers : ParserProgress(p)
           /\ Let(tokenize(Lexer(text)), LAMBDA t :
              /\ Len(t.tokens) <= Len(text) + 1
              /\ t.err = NoError
                  => t.tokens[Len(t.tokens)].type = "EOF")
           /\ Let(ParseText(text), LAMBDA a :
              a.err = NoError
                  => /\ a.node.type = "ProgramNode"
                     /\ a.p.current_token.type = "EOF"
                     /\ Len(a.node.statements) <= Len(text))

\* A text was given whose loops all run: whitespace, a comment that ends
\* the text, a number, a name, and a statement with + and *.
C26_Witness ==
    /\ pc = "tokenizing"
    /\ lexer.pos = Len(text)
    /\ EndsInComment(text)
    /\ \E j \in 1..Len(tokens) : tokens[j].type = "NUMBER"
    /\ \E j \in 1..Len(tokens) : tokens[j].type = "ID"
    /\ tokens[Len(tokens)].type = "EOF"

=============================================================================
